---- MODULE Spec2Model ----
(***************************************************************************)
(* Vector store of the knowledge base: the in-process FAISS store          *)
(* (app/vector_store.py) and the PostgreSQL + pgvector store               *)
(* (app/vector_store_postgres.py), selected by USE_POSTGRES in app/main.py.*)
(* One store instance lives for the whole behaviour; its persisted state   *)
(* (files, database tables) is part of the state.                          *)
(***************************************************************************)
EXTENDS Integers, Sequences, FiniteSets, TLC

\* ------------------------------------------------------------------ bounds
MaxChunks == 3      \* chunks a store holds at most
MaxAdd == 2         \* chunks handed to one add_documents call at most
MaxTopK == 2        \* largest top_k asked of search
MaxFaults == 1      \* provider or storage failures injected in one behaviour
MaxAppends == 3     \* messages appended to conversations in one behaviour

\* ------------------------------------------------------------- value sets
None == [None |-> TRUE]          \* Python None for record-valued fields
NoDimension == 0                 \* self.dimension = None (falsy, like 0)

DocIds == {"d1", "d2"}
\* file names a document id was uploaded under ("d1" under two of them)
DocNames(d) == IF d = "d1" THEN {"a.txt", "b.txt"} ELSE {"c.txt"}
\* text of chunk i (0-based) of a document
ChunkText(d, i) ==
    IF d = "d1" THEN (IF i % 2 = 0 THEN "t1" ELSE "t2")
    ELSE (IF i % 2 = 0 THEN "t3" ELSE "t1")
Queries == {"q1", "q2"}

DEFAULT_OPENAI_MODEL == "text-embedding-3-small"
DEFAULT_ST_MODEL == "all-MiniLM-L6-v2"
ProviderArgs == {"openai", "sentence-transformers", "cohere"}
ModelArgs == {"", "text-embedding-3-large"}   \* "" is model=None

\* ------------------------------------------------------ embedding providers
\* OpenAIEmbeddingProvider._dimensions.get(model, 1536);
\* SentenceTransformerProvider takes the dimension from the loaded model.
OpenAIDimensions(model) ==
    CASE model = "text-embedding-3-small" -> 1536
      [] model = "text-embedding-3-large" -> 3072
      [] model = "text-embedding-ada-002" -> 1536
      [] OTHER -> 1536

\* SentenceTransformer(model_name) loads only sentence-transformer models;
\* anything else raises "Failed to load Sentence Transformer model".
CanConstruct(provider, model) ==
    \/ provider = "openai"
    \/ provider = "sentence-transformers" /\ model = "all-MiniLM-L6-v2"

get_dimension(p) ==
    IF p.provider = "openai" THEN OpenAIDimensions(p.model) ELSE 384

\* Embeddings are unit vectors; here points of the integer circle of
\* radius 5, so that exact distances stay integers.
BasePoint(text) ==
    CASE text = "t1" -> <<5, 0>>
      [] text = "t2" -> <<3, 4>>
      [] text = "q1" -> <<4, 3>>
      [] text = "q2" -> <<4, -3>>
      [] OTHER -> <<0, 5>>

\* one vector per text, of the model's real length; models place texts differently
EmbedOne(p, text) ==
    LET b == BasePoint(text) IN
    [dim |-> get_dimension(p),
     x |-> IF p.model = "text-embedding-3-large" THEN b[2] ELSE b[1],
     y |-> IF p.model = "text-embedding-3-large" THEN b[1] ELSE b[2]]

embed(p, texts) == [i \in 1..Len(texts) |-> EmbedOne(p, texts[i])]

\* faiss.IndexFlatL2: squared Euclidean distance
L2(a, b) == (a.x - b.x) * (a.x - b.x) + (a.y - b.y) * (a.y - b.y)

\* pgvector cosine_distance = 1 - a.b/(|a||b|); with |a| = |b| = 5 it is
\* (25 - a.b)/25, kept here scaled by 25.
cosine_distance(a, b) == 25 - (a.x * b.x + a.y * b.y)

\* ------------------------------------------------------------------ chunks
DocumentChunk(doc_id, doc_name, chunk_id, text) ==
    [doc_id |-> doc_id, doc_name |-> doc_name, chunk_id |-> chunk_id, text |-> text]

\* the chunk list a caller passes to add_documents: the len chunks of one document
ChunkList(d, n, len) == [i \in 1..len |-> DocumentChunk(d, n, i - 1, ChunkText(d, i - 1))]

EmbeddingSettings(provider, model, dimension) ==
    [provider |-> provider, model |-> model, dimension |-> dimension]

\* ------------------------------------------------------------------- state
VARIABLES
    USE_POSTGRES,        \* main.py: which store class serves the application
    embedding_provider,  \* self.embedding_provider: None or the provider object
    embedding_settings,  \* self.embedding_settings: None or EmbeddingSettings
    dimension,           \* self.dimension
    index,               \* VectorStore.index: None or a faiss.IndexFlatL2
    chunks,              \* VectorStore.chunks
    config_file,         \* EMBEDDING_CONFIG_PATH: None or the saved settings
    index_file,          \* FAISS_INDEX_PATH/index.faiss: None or the saved index
    metadata_file,       \* METADATA_PATH: None or {'chunks': [...]}
    document_chunks,     \* table document_chunks, in id order
    embedding_config,    \* table embedding_config, in id order
    column_dim,          \* declared length of document_chunks.embedding (0: none)
    ret,                 \* the last call: operation, outcome, returned value
    added,               \* a non-empty add_documents succeeded since the last reset()
    snap,                \* the store content before the last add of a new doc_id
    faults,              \* failures injected so far
    DB_CONFIGURED,       \* DB_HOST and DB_PASSWORD are set: the primary store exists
    conversations,       \* RAGEngine.conversations: conversation_id -> conversation
    conversations_table, \* table conversations (ConversationDB rows)
    conversations_file,  \* data/conversations.json: None or the saved map
    clock,               \* datetime.now(), in ticks
    pending,             \* the chat turn between its two appends, or None
    injected             \* kinds of persistence failures injected so far

vars == <<USE_POSTGRES, embedding_provider, embedding_settings, dimension, index,
          chunks, config_file, index_file, metadata_file, document_chunks,
          embedding_config, column_dim, ret, added, snap, faults, DB_CONFIGURED,
          conversations, conversations_table, conversations_file, clock, pending,
          injected>>

memvars == <<embedding_provider, embedding_settings, dimension, index, chunks>>
filevars == <<config_file, index_file, metadata_file>>
dbvars == <<document_chunks, embedding_config, column_dim>>
vsvars == <<USE_POSTGRES, memvars, filevars, dbvars, added, snap>>
convvars == <<DB_CONFIGURED, conversations, conversations_table, conversations_file,
              clock, pending, injected>>

\* the environment makes the call fail at the named step (at most MaxFaults times)
Inject(fault) ==
    /\ fault = "none" \/ faults < MaxFaults
    /\ faults' = IF fault = "none" THEN faults ELSE faults + 1

\* History kept for the round trip add_documents(d) ; delete_document(d): the
\* content right before a successful add of a doc_id not yet stored, kept while
\* the very next call is delete_document of that doc_id, dropped by any other call.
StoredDocIds ==
    {chunks[i].doc_id : i \in 1..Len(chunks)}
        \cup {document_chunks[i].chunk.doc_id : i \in 1..Len(document_chunks)}

SnapAfterAdd(new, outcome) ==
    IF Len(new) > 0 /\ outcome = "ok" /\ new[1].doc_id \notin StoredDocIds
    THEN [stage |-> "added", doc_id |-> new[1].doc_id, index |-> index,
          chunks |-> chunks, rows |-> document_chunks]
    ELSE None

SnapAfterDelete(doc_id, outcome) ==
    IF snap # None /\ snap.stage = "added" /\ snap.doc_id = doc_id /\ outcome = "ok"
    THEN [snap EXCEPT !.stage = "deleted"]
    ELSE None

Ret(op, args, outcome, result) ==
    [op |-> op, args |-> args, outcome |-> outcome, result |-> result]

\* what a call raised, or "ok"
LOCK_ERROR == "Cannot change embedding provider after documents have been uploaded"
UNKNOWN_PROVIDER == "Unknown embedding provider"
LOAD_ERROR == "Failed to load Sentence Transformer model"
NOT_SET == "Embedding provider not set"
NOT_INITIALIZED == "Embedding provider not initialized"
EMBED_ERROR == "embedding error"
DIMENSION_ERROR == "dimension mismatch"
WRITE_ERROR == "write failed"
NO_INDEX == "'NoneType' object has no attribute 'add'"

\* ------------------------------------------------------- faiss.IndexFlatL2
IndexFlatL2(d) == [d |-> d, vectors |-> <<>>]
ntotal(idx) == Len(idx.vectors)

\* index.add(embeddings): the wrapper asserts that every row has length d
CanAddToIndex(idx, embeddings) == \A i \in 1..Len(embeddings) : embeddings[i].dim = idx.d

\* faulty variant of NextNearest: the first entry not yet taken, whatever its distance
NextNearest_ByPosition(dists, taken) ==
    CHOOSE i \in (1..Len(dists)) \ taken : \A j \in (1..Len(dists)) \ taken : i <= j

\* position of the nearest entry not yet taken; equal distances go to the lower position
NextNearest(dists, taken) ==
    CHOOSE i \in (1..Len(dists)) \ taken :
        \A j \in (1..Len(dists)) \ taken :
            dists[i] < dists[j] \/ (dists[i] = dists[j] /\ i <= j)

RECURSIVE Nearest(_, _, _)
\* positions of the k nearest entries, nearest first
Nearest(dists, k, acc) ==
    IF k <= 0 \/ Len(acc) = Len(dists) THEN acc
    ELSE Nearest(dists, k - 1,
                 Append(acc, NextNearest(dists, {acc[i] : i \in 1..Len(acc)})))

Min2(a, b) == IF a <= b THEN a ELSE b

\* ----------------------------------------------- VectorStore (FAISS, files)
\* the temporary provider of set_embedding_provider: model = model or default
ResolveModel(provider, model) ==
    IF model # "" THEN model
    ELSE IF provider = "openai" THEN DEFAULT_OPENAI_MODEL ELSE DEFAULT_ST_MODEL

Provider(provider, model) == [provider |-> provider, model |-> model]

\* the settings record set_embedding_provider(provider, model) stores
SettingsOf(provider, model) ==
    EmbeddingSettings(provider, ResolveModel(provider, model),
                      get_dimension(Provider(provider, ResolveModel(provider, model))))

SetArgs(provider, model) == [provider |-> provider, model |-> model]

\* faulty variant of SetProviderCheck: the lock check is missing
SetProviderCheck_NoLock(locked, provider, model) ==
    IF provider \notin {"openai", "sentence-transformers"} THEN UNKNOWN_PROVIDER
    ELSE IF ~CanConstruct(provider, ResolveModel(provider, model)) THEN LOAD_ERROR
    ELSE "ok"

\* outcome of the checks of set_embedding_provider that come before any assignment
SetProviderCheck(locked, provider, model) ==
    IF locked THEN LOCK_ERROR
    ELSE IF provider \notin {"openai", "sentence-transformers"} THEN UNKNOWN_PROVIDER
    ELSE IF ~CanConstruct(provider, ResolveModel(provider, model)) THEN LOAD_ERROR
    ELSE "ok"

VectorStore_is_locked_value == Len(chunks) > 0

\* faulty variant of VectorStore_set_embedding_provider: the saved configuration is
\* removed before the arguments are checked
VectorStore_set_embedding_provider_EarlyWrite(provider, model) ==
    LET check == SetProviderCheck(Len(chunks) > 0, provider, model)
        m == ResolveModel(provider, model)
        temp_provider == Provider(provider, m)
        settings == EmbeddingSettings(provider, m, get_dimension(temp_provider))
    IN  /\ ~USE_POSTGRES
        /\ IF check # "ok"
           THEN /\ ret' = Ret("set_embedding_provider", SetArgs(provider, model), check, None)
                /\ config_file' = None
                /\ UNCHANGED <<memvars, index_file, metadata_file>>
           ELSE /\ embedding_provider' = temp_provider
                /\ embedding_settings' = settings
                /\ dimension' = get_dimension(temp_provider)
                /\ config_file' = settings
                /\ index' = IndexFlatL2(get_dimension(temp_provider))
                /\ ret' = Ret("set_embedding_provider", SetArgs(provider, model), "ok", settings)
                /\ UNCHANGED <<chunks, index_file, metadata_file>>
        /\ UNCHANGED <<USE_POSTGRES, dbvars, added, faults>>
        /\ snap' = None

VectorStore_set_embedding_provider(provider, model) ==
    LET check == SetProviderCheck(Len(chunks) > 0, provider, model)
        m == ResolveModel(provider, model)
        temp_provider == Provider(provider, m)
        settings == EmbeddingSettings(provider, m, get_dimension(temp_provider))
    IN  /\ ~USE_POSTGRES
        /\ IF check # "ok"
           THEN /\ ret' = Ret("set_embedding_provider", SetArgs(provider, model), check, None)
                /\ UNCHANGED <<memvars, filevars>>
           ELSE \* _initialize_embedding_provider, _save_embedding_config, new index
                /\ embedding_provider' = temp_provider
                /\ embedding_settings' = settings
                /\ dimension' = get_dimension(temp_provider)
                /\ config_file' = settings
                /\ index' = IndexFlatL2(get_dimension(temp_provider))
                /\ ret' = Ret("set_embedding_provider", SetArgs(provider, model), "ok", settings)
                /\ UNCHANGED <<chunks, index_file, metadata_file>>
        /\ UNCHANGED <<USE_POSTGRES, dbvars, added, faults>>
        /\ snap' = None

\* faulty variant of get_embedding_settings_value: the settings are hidden while locked
get_embedding_settings_value_HiddenWhenLocked ==
    IF Len(chunks) > 0 \/ Len(document_chunks) > 0 THEN None ELSE embedding_settings

\* get_embedding_settings() of either store: return self.embedding_settings
get_embedding_settings_value == embedding_settings

VectorStore_get_embedding_settings ==
    /\ ~USE_POSTGRES
    /\ ret' = Ret("get_embedding_settings", None, "ok", get_embedding_settings_value)
    /\ UNCHANGED <<USE_POSTGRES, memvars, filevars, dbvars, added, faults>>
    /\ snap' = None

\* _save_index: write_index, then the metadata file; either write may fail
SaveIndex(idx, chs, fault) ==
    [index_file |-> IF fault = "write_index" THEN index_file ELSE idx,
     metadata_file |-> IF fault \in {"write_index", "write_metadata"}
                       THEN metadata_file ELSE [chunks |-> chs],
     outcome |-> IF fault \in {"write_index", "write_metadata"} THEN WRITE_ERROR ELSE "ok"]

Unchanged(idx, chs, outcome) ==
    [index |-> idx, chunks |-> chs, index_file |-> index_file,
     metadata_file |-> metadata_file, outcome |-> outcome]

\* faulty variant of AddCheck: a store without provider ignores the chunks silently
AddCheck_SilentWithoutProvider(new) ==
    IF Len(new) = 0 \/ embedding_provider = None THEN "return" ELSE "embed"

\* the two checks add_documents makes before it embeds anything
AddCheck(new) ==
    IF Len(new) = 0 THEN "return"
    ELSE IF embedding_provider = None THEN NOT_SET
    ELSE "embed"

\* faulty variant of add_documents: the chunk list is extended before the
\* texts are embedded
AddDocuments_ExtendFirst(idx, chs, new, fault) ==
    IF AddCheck(new) = "return" THEN Unchanged(idx, chs, "ok")
    ELSE IF AddCheck(new) = NOT_SET THEN Unchanged(idx, chs, NOT_SET)
    ELSE IF fault = "embed" THEN Unchanged(idx, chs \o new, EMBED_ERROR)
    ELSE IF idx = None THEN Unchanged(idx, chs \o new, NO_INDEX)
    ELSE LET embeddings == embed(embedding_provider, [i \in 1..Len(new) |-> new[i].text])
         IN  IF ~CanAddToIndex(idx, embeddings) THEN Unchanged(idx, chs \o new, DIMENSION_ERROR)
             ELSE LET idx2 == [idx EXCEPT !.vectors = idx.vectors \o embeddings]
                      chs2 == chs \o new
                      saved == SaveIndex(idx2, chs2, fault)
                  IN  [index |-> idx2, chunks |-> chs2,
                       index_file |-> saved.index_file,
                       metadata_file |-> saved.metadata_file,
                       outcome |-> saved.outcome]

\* add_documents(new) run on the in-memory state (idx, chs): the state it leaves
AddDocuments(idx, chs, new, fault) ==
    IF AddCheck(new) = "return" THEN Unchanged(idx, chs, "ok")
    ELSE IF AddCheck(new) = NOT_SET THEN Unchanged(idx, chs, NOT_SET)
    ELSE IF fault = "embed" THEN Unchanged(idx, chs, EMBED_ERROR)
    ELSE IF idx = None THEN Unchanged(idx, chs, NO_INDEX)
    ELSE LET embeddings == embed(embedding_provider, [i \in 1..Len(new) |-> new[i].text])
         IN  IF ~CanAddToIndex(idx, embeddings) THEN Unchanged(idx, chs, DIMENSION_ERROR)
             ELSE LET idx2 == [idx EXCEPT !.vectors = idx.vectors \o embeddings]
                      chs2 == chs \o new
                      saved == SaveIndex(idx2, chs2, fault)
                  IN  [index |-> idx2, chunks |-> chs2,
                       index_file |-> saved.index_file,
                       metadata_file |-> saved.metadata_file,
                       outcome |-> saved.outcome]

AddFaults == {"none", "embed", "write_index", "write_metadata"}

VectorStore_add_documents(new, fault) ==
    LET r == AddDocuments(index, chunks, new, fault) IN
    /\ ~USE_POSTGRES
    /\ Inject(fault)
    /\ Len(chunks) + Len(new) <= MaxChunks
    /\ index' = r.index
    /\ chunks' = r.chunks
    /\ index_file' = r.index_file
    /\ metadata_file' = r.metadata_file
    /\ ret' = Ret("add_documents", Len(new), r.outcome, None)
    /\ snap' = SnapAfterAdd(new, r.outcome)
    /\ added' = (added \/ (Len(new) > 0 /\ r.outcome = "ok"))
    /\ UNCHANGED <<USE_POSTGRES, embedding_provider, embedding_settings, dimension,
                   config_file, dbvars>>

SearchResult(chunk, distance) == [chunk |-> chunk, distance |-> distance]

SearchArgs(query, top_k) == [query |-> query, top_k |-> top_k]

\* the (chunk, distance) pairs index.search yields, positions past the chunk list dropped
FaissSearch(idx, chs, query_embedding, top_k) ==
    LET dists == [i \in 1..ntotal(idx) |-> L2(idx.vectors[i], query_embedding)]
        found == Nearest(dists, Min2(top_k, ntotal(idx)), <<>>)
        kept == SelectSeq(found, LAMBDA i : i <= Len(chs))
    IN  [j \in 1..Len(kept) |-> SearchResult(chs[kept[j]], dists[kept[j]])]

\* VectorStore.search on the in-memory state (idx, chs): outcome and returned pairs
VectorStore_search_value(idx, chs, query, top_k, fault) ==
    LET args == SearchArgs(query, top_k) IN
    IF idx = None \/ ntotal(idx) = 0 THEN Ret("search", args, "ok", <<>>)
    ELSE IF embedding_provider = None THEN Ret("search", args, NOT_INITIALIZED, <<>>)
    ELSE IF fault = "embed" THEN Ret("search", args, EMBED_ERROR, <<>>)
    ELSE IF EmbedOne(embedding_provider, query).dim # idx.d
         THEN Ret("search", args, DIMENSION_ERROR, <<>>)
    ELSE Ret("search", args, "ok",
             FaissSearch(idx, chs, EmbedOne(embedding_provider, query), top_k))

VectorStore_search(query, top_k, fault) ==
    /\ ~USE_POSTGRES
    /\ Inject(fault)
    /\ ret' = VectorStore_search_value(index, chunks, query, top_k, fault)
    /\ UNCHANGED <<USE_POSTGRES, memvars, filevars, dbvars, added>>
    /\ snap' = None

\* faulty variant of Remaining: the filter is inverted
Remaining_Inverted(chs, doc_id) == SelectSeq(chs, LAMBDA c : c.doc_id = doc_id)

\* chunks of the other documents, in stored order
Remaining(chs, doc_id) == SelectSeq(chs, LAMBDA c : c.doc_id # doc_id)

\* faulty variant of delete_document: it rebuilds the index without looking
\* whether a chunk was removed
VectorStore_delete_document_NoEarlyReturn(doc_id, fault) ==
    LET remaining_chunks == Remaining(chunks, doc_id)
        rebuilt == AddDocuments(IndexFlatL2(dimension), <<>>, remaining_chunks, fault)
        saved == SaveIndex(IndexFlatL2(dimension), <<>>, fault)
    IN  /\ ~USE_POSTGRES
        /\ Inject(fault)
        /\ IF embedding_provider # None /\ dimension # NoDimension
           THEN IF Len(remaining_chunks) > 0
                THEN /\ index' = rebuilt.index
                     /\ chunks' = rebuilt.chunks
                     /\ index_file' = rebuilt.index_file
                     /\ metadata_file' = rebuilt.metadata_file
                     /\ ret' = Ret("delete_document", doc_id, rebuilt.outcome, None)
                ELSE /\ fault # "embed"
                     /\ index' = IndexFlatL2(dimension)
                     /\ chunks' = <<>>
                     /\ index_file' = saved.index_file
                     /\ metadata_file' = saved.metadata_file
                     /\ ret' = Ret("delete_document", doc_id, saved.outcome, None)
           ELSE /\ ret' = Ret("delete_document", doc_id, "ok", None)
                /\ UNCHANGED <<index, chunks, index_file, metadata_file>>
        /\ snap' = SnapAfterDelete(doc_id, ret'.outcome)
        /\ UNCHANGED <<USE_POSTGRES, embedding_provider, embedding_settings, dimension,
                       config_file, dbvars, added>>

VectorStore_delete_document(doc_id, fault) ==
    LET remaining_chunks == Remaining(chunks, doc_id)
        rebuilt == AddDocuments(IndexFlatL2(dimension), <<>>, remaining_chunks, fault)
        saved == SaveIndex(IndexFlatL2(dimension), <<>>, fault)
    IN  /\ ~USE_POSTGRES
        /\ Inject(fault)
        /\ IF Len(remaining_chunks) = Len(chunks)
           THEN /\ ret' = Ret("delete_document", doc_id, "ok", None)
                /\ UNCHANGED <<index, chunks, index_file, metadata_file>>
           ELSE IF embedding_provider # None /\ dimension # NoDimension
           THEN IF Len(remaining_chunks) > 0
                THEN /\ index' = rebuilt.index
                     /\ chunks' = rebuilt.chunks
                     /\ index_file' = rebuilt.index_file
                     /\ metadata_file' = rebuilt.metadata_file
                     /\ ret' = Ret("delete_document", doc_id, rebuilt.outcome, None)
                ELSE /\ fault # "embed"
                     /\ index' = IndexFlatL2(dimension)
                     /\ chunks' = <<>>
                     /\ index_file' = saved.index_file
                     /\ metadata_file' = saved.metadata_file
                     /\ ret' = Ret("delete_document", doc_id, saved.outcome, None)
           ELSE /\ ret' = Ret("delete_document", doc_id, "ok", None)
                /\ UNCHANGED <<index, chunks, index_file, metadata_file>>
        /\ snap' = SnapAfterDelete(doc_id, ret'.outcome)
        /\ UNCHANGED <<USE_POSTGRES, embedding_provider, embedding_settings, dimension,
                       config_file, dbvars, added>>

\* faiss.write_index(None, ...): builds differ, some raise, some write a null index
NullIndex == [null |-> TRUE]
NullWrites == {"raises", "writes null index"}

ResetFaults == {"none", "write_index", "write_metadata"}

VectorStore_reset(null_write, fault) ==
    LET idx == IF dimension # NoDimension THEN IndexFlatL2(dimension) ELSE index
        saved == SaveIndex(IF idx = None THEN NullIndex ELSE idx, <<>>, fault)
    IN  /\ ~USE_POSTGRES
        /\ Inject(fault)
        /\ idx = None \/ null_write = "raises"    \* the build matters for a None index only
        /\ index' = idx
        /\ chunks' = <<>>
        /\ config_file' = None        \* os.remove(EMBEDDING_CONFIG_PATH) comes first
        /\ embedding_provider' = None
        /\ embedding_settings' = None
        /\ IF idx = None /\ null_write = "raises"
           THEN /\ ret' = Ret("reset", None, WRITE_ERROR, None)
                /\ UNCHANGED <<index_file, metadata_file>>
           ELSE /\ index_file' = saved.index_file
                /\ metadata_file' = saved.metadata_file
                /\ ret' = Ret("reset", None, saved.outcome, None)
        /\ added' = FALSE
        /\ snap' = None
        /\ UNCHANGED <<USE_POSTGRES, dimension, dbvars>>

\* faiss.read_index: the stored index; a stored null index reads back as None
ReadIndex(file) == IF file = NullIndex THEN None ELSE file

\* VectorStore(): __init__ and _load_or_create_index on the files left on disk
VectorStore___init__ ==
    /\ ~USE_POSTGRES
    /\ embedding_settings' = config_file
    /\ IF index_file # None /\ metadata_file # None /\ config_file # None
       THEN /\ index' = ReadIndex(index_file)
            /\ chunks' = metadata_file.chunks
            /\ embedding_provider' = Provider(config_file.provider, config_file.model)
            /\ dimension' = get_dimension(Provider(config_file.provider, config_file.model))
       ELSE /\ index' = None
            /\ chunks' = <<>>
            /\ embedding_provider' = None
            /\ dimension' = NoDimension
    /\ added' = FALSE
    /\ snap' = None
    /\ UNCHANGED <<USE_POSTGRES, filevars, dbvars>>

RECURSIVE GroupDocs(_, _)
\* get_all_documents' loop: one record per doc_id, in order of first appearance
GroupDocs(chs, docs) ==
    IF chs = <<>> THEN docs
    ELSE LET c == Head(chs)
             seen == {i \in 1..Len(docs) : docs[i].doc_id = c.doc_id}
         IN  IF seen = {}
             THEN GroupDocs(Tail(chs), Append(docs,
                      [doc_id |-> c.doc_id, doc_name |-> c.doc_name, num_chunks |-> 1]))
             ELSE GroupDocs(Tail(chs),
                      [i \in 1..Len(docs) |->
                          IF i \in seen
                          THEN [docs[i] EXCEPT !.num_chunks = docs[i].num_chunks + 1]
                          ELSE docs[i]])

VectorStore_get_all_documents ==
    /\ ~USE_POSTGRES
    /\ ret' = Ret("get_all_documents", None, "ok", GroupDocs(chunks, <<>>))
    /\ UNCHANGED <<USE_POSTGRES, memvars, filevars, dbvars, added, faults>>
    /\ snap' = None

\* --------------------------------- PostgresVectorStore (PostgreSQL, pgvector)
DocumentChunkDB(chunk, embedding) == [chunk |-> chunk, embedding |-> embedding]

PostgresVectorStore_is_locked_value == Len(document_chunks) > 0

PostgresVectorStore_set_embedding_provider(provider, model) ==
    LET check == SetProviderCheck(PostgresVectorStore_is_locked_value, provider, model)
        m == ResolveModel(provider, model)
        temp_provider == Provider(provider, m)
        settings == EmbeddingSettings(provider, m, get_dimension(temp_provider))
    IN  /\ USE_POSTGRES
        /\ IF check # "ok"
           THEN /\ ret' = Ret("set_embedding_provider", SetArgs(provider, model), check, None)
                /\ UNCHANGED <<embedding_provider, embedding_settings, dimension,
                               embedding_config>>
           ELSE \* _initialize_embedding_provider, then _save_embedding_config
                /\ embedding_provider' = temp_provider
                /\ embedding_settings' = settings
                /\ dimension' = get_dimension(temp_provider)
                /\ embedding_config' = <<settings>>
                /\ ret' = Ret("set_embedding_provider", SetArgs(provider, model), "ok", settings)
        /\ UNCHANGED <<USE_POSTGRES, index, chunks, filevars, document_chunks,
                       column_dim, added, faults>>
        /\ snap' = None

PostgresVectorStore_get_embedding_settings ==
    /\ USE_POSTGRES
    /\ ret' = Ret("get_embedding_settings", None, "ok", get_embedding_settings_value)
    /\ UNCHANGED <<USE_POSTGRES, memvars, filevars, dbvars, added, faults>>
    /\ snap' = None

\* PostgresVectorStore(): __init__ and _init_database on the tables of the database
PostgresVectorStore___init__ ==
    /\ USE_POSTGRES
    /\ IF embedding_config # <<>>
       THEN /\ embedding_settings' = embedding_config[1]
            /\ embedding_provider' =
                 Provider(embedding_config[1].provider, embedding_config[1].model)
            /\ dimension' = get_dimension(Provider(embedding_config[1].provider,
                                                   embedding_config[1].model))
       ELSE /\ embedding_settings' = None
            /\ embedding_provider' = None
            /\ dimension' = NoDimension
    /\ added' = FALSE
    /\ snap' = None
    /\ UNCHANGED <<USE_POSTGRES, index, chunks, filevars, dbvars>>

\* a vector column declared with a length refuses rows of another length
ColumnAccepts(embeddings) ==
    column_dim = 0 \/ \A i \in 1..Len(embeddings) : embeddings[i].dim = column_dim

PgAddFaults == {"none", "embed", "commit"}

PostgresVectorStore_add_documents(new, fault) ==
    LET embeddings == embed(embedding_provider, [i \in 1..Len(new) |-> new[i].text])
        outcome ==
            IF AddCheck(new) = "return" THEN "ok"
            ELSE IF AddCheck(new) = NOT_SET THEN NOT_SET
            ELSE IF fault = "embed" THEN EMBED_ERROR
            ELSE IF ~ColumnAccepts(embeddings) THEN DIMENSION_ERROR
            ELSE IF fault = "commit" THEN WRITE_ERROR
            ELSE "ok"
    IN  /\ USE_POSTGRES
        /\ Inject(fault)
        /\ Len(document_chunks) + Len(new) <= MaxChunks
        /\ document_chunks' =
             IF Len(new) > 0 /\ outcome = "ok"
             THEN document_chunks \o
                  [i \in 1..Len(new) |-> DocumentChunkDB(new[i], embeddings[i])]
             ELSE document_chunks       \* nothing to add, or session.rollback()
        /\ ret' = Ret("add_documents", Len(new), outcome, None)
        /\ snap' = SnapAfterAdd(new, outcome)
        /\ added' = (added \/ (Len(new) > 0 /\ outcome = "ok"))
        /\ UNCHANGED <<USE_POSTGRES, memvars, filevars, embedding_config, column_dim>>

\* ORDER BY distance LIMIT top_k over the rows of document_chunks
PgSearch(rows, query_embedding, top_k) ==
    LET dists == [i \in 1..Len(rows) |->
                     cosine_distance(rows[i].embedding, query_embedding)]
        found == Nearest(dists, top_k, <<>>)
    IN  [j \in 1..Len(found) |-> SearchResult(rows[found[j]].chunk, dists[found[j]])]

\* PostgresVectorStore.search over the table content rows: outcome and returned pairs
PostgresVectorStore_search_value(rows, query, top_k, fault) ==
    LET args == SearchArgs(query, top_k) IN
    IF embedding_provider = None THEN Ret("search", args, NOT_INITIALIZED, <<>>)
    ELSE IF fault = "embed" THEN Ret("search", args, EMBED_ERROR, <<>>)
    ELSE IF \E i \in 1..Len(rows) :
               rows[i].embedding.dim # EmbedOne(embedding_provider, query).dim
         THEN Ret("search", args, DIMENSION_ERROR, <<>>)   \* different vector dimensions
    ELSE Ret("search", args, "ok",
             PgSearch(rows, EmbedOne(embedding_provider, query), top_k))

PostgresVectorStore_search(query, top_k, fault) ==
    /\ USE_POSTGRES
    /\ Inject(fault)
    /\ ret' = PostgresVectorStore_search_value(document_chunks, query, top_k, fault)
    /\ UNCHANGED <<USE_POSTGRES, memvars, filevars, dbvars, added>>
    /\ snap' = None

PostgresVectorStore_delete_document(doc_id) ==
    /\ USE_POSTGRES
    /\ document_chunks' = SelectSeq(document_chunks, LAMBDA r : r.chunk.doc_id # doc_id)
    /\ ret' = Ret("delete_document", doc_id, "ok", None)
    /\ snap' = SnapAfterDelete(doc_id, "ok")
    /\ UNCHANGED <<USE_POSTGRES, memvars, filevars, embedding_config, column_dim,
                   added, faults>>

PostgresVectorStore_reset ==
    /\ USE_POSTGRES
    /\ document_chunks' = <<>>
    /\ embedding_config' = <<>>
    /\ embedding_provider' = None
    /\ embedding_settings' = None
    /\ dimension' = NoDimension
    /\ ret' = Ret("reset", None, "ok", None)
    /\ added' = FALSE
    /\ snap' = None
    /\ UNCHANGED <<USE_POSTGRES, index, chunks, filevars, column_dim, faults>>

RECURSIVE GroupRows(_, _)
\* GROUP BY doc_id, doc_name: the distinct (doc_id, doc_name) pairs of the rows
GroupRows(rows, groups) ==
    IF rows = <<>> THEN groups
    ELSE LET c == Head(rows).chunk IN
         IF \E i \in 1..Len(groups) :
                groups[i].doc_id = c.doc_id /\ groups[i].doc_name = c.doc_name
         THEN GroupRows(Tail(rows), groups)
         ELSE GroupRows(Tail(rows),
                  Append(groups, [doc_id |-> c.doc_id, doc_name |-> c.doc_name]))

\* one record per group, counted by a query filtered on the group's doc_id
PgAllDocuments(rows) ==
    LET groups == GroupRows(rows, <<>>) IN
    [g \in 1..Len(groups) |->
        [doc_id |-> groups[g].doc_id, doc_name |-> groups[g].doc_name,
         num_chunks |-> Len(SelectSeq(rows, LAMBDA r : r.chunk.doc_id = groups[g].doc_id))]]

PostgresVectorStore_get_all_documents_value == PgAllDocuments(document_chunks)

PostgresVectorStore_get_all_documents ==
    /\ USE_POSTGRES
    /\ ret' = Ret("get_all_documents", None, "ok",
                PostgresVectorStore_get_all_documents_value)
    /\ UNCHANGED <<USE_POSTGRES, memvars, filevars, dbvars, added, faults>>
    /\ snap' = None

\* ------------------------------- ingestion function (lambda, same database)
EMBEDDING_PROVIDER == "openai"
EMBEDDING_MODEL == "text-embedding-3-small"

\* get_embedding_dimension(): by the configured provider and the model's name
get_embedding_dimension ==
    IF EMBEDDING_PROVIDER = "openai"
    THEN (IF EMBEDDING_MODEL = "text-embedding-3-large" THEN 3072 ELSE 1536)
    ELSE 384

\* generate_embeddings_openai(texts): always the OpenAI API with EMBEDDING_MODEL
generate_embeddings_openai(texts) == embed(Provider("openai", EMBEDDING_MODEL), texts)

\* process_document for the S3 object "<doc_id>_<doc_name>" that chunks into len chunks
process_document(doc_id, doc_name, len, fault) ==
    LET new == ChunkList(doc_id, doc_name, len)
        config == IF embedding_config = <<>>
                  THEN <<EmbeddingSettings(EMBEDDING_PROVIDER, EMBEDDING_MODEL,
                                           get_embedding_dimension)>>
                  ELSE embedding_config      \* a differing config only prints a warning
        embeddings == generate_embeddings_openai([i \in 1..len |-> new[i].text])
        outcome == IF fault = "embed" THEN EMBED_ERROR
                   ELSE IF ~ColumnAccepts(embeddings) THEN DIMENSION_ERROR
                   ELSE IF fault = "commit" THEN WRITE_ERROR
                   ELSE "ok"
        rows == IF outcome = "ok"
                THEN document_chunks \o
                     [i \in 1..len |-> DocumentChunkDB(new[i], embeddings[i])]
                ELSE document_chunks
    IN  /\ USE_POSTGRES          \* the database exists in the PostgreSQL deployment
        /\ Inject(fault)
        /\ Len(document_chunks) + len <= MaxChunks
        /\ embedding_config' = config
        /\ document_chunks' = rows
        \* ALTER COLUMN embedding TYPE vector(dimension), its failure swallowed
        /\ column_dim' =
             IF /\ outcome = "ok"
                /\ column_dim = 0
                /\ \A i \in 1..Len(rows) : rows[i].embedding.dim = get_embedding_dimension
             THEN get_embedding_dimension
             ELSE column_dim
        /\ ret' = Ret("process_document", len, outcome, None)
        /\ snap' = None
        /\ UNCHANGED <<USE_POSTGRES, memvars, filevars, added>>

\* ============================================================ conversations
\* ConversationStore (app/conversation_store.py) and the conversation part of
\* RAGEngine (app/rag_engine.py).
ConversationIds == {"c1", "c2"}

LLMSettings(answer_provider, answer_model, rewrite_provider, rewrite_model, ollama_url) ==
    [answer_provider |-> answer_provider, answer_model |-> answer_model,
     rewrite_provider |-> rewrite_provider, rewrite_model |-> rewrite_model,
     ollama_url |-> ollama_url]

DEFAULT_ANSWER_PROVIDER == "openai"
DEFAULT_ANSWER_MODEL == "gpt-4"
DEFAULT_REWRITE_PROVIDER == "openai"
DEFAULT_REWRITE_MODEL == "gpt-3.5-turbo"
DEFAULT_OLLAMA_URL == "http://localhost:11434"

_get_default_settings ==
    LLMSettings(DEFAULT_ANSWER_PROVIDER, DEFAULT_ANSWER_MODEL, DEFAULT_REWRITE_PROVIDER,
                DEFAULT_REWRITE_MODEL, DEFAULT_OLLAMA_URL)

\* settings a chat request carries: none, or an explicit LLMSettings ("" is None)
SettingsArgs == {None, LLMSettings("ollama", "llama3", "disabled", "", "")}

\* a settings dict as JSON holds it: the fields LLMSettings declares (all of
\* them, or only some) and the names of the other keys
SettingsDict(fields, extra) == [fields |-> fields, extra |-> extra]

\* LLMSettings.dict(): the declared fields, nothing else
dict(settings) == SettingsDict(settings, {})

\* LLMSettings(**d) raises unless the three required fields are there
CanRebuild(d) ==
    {"answer_provider", "answer_model", "rewrite_provider"} \subseteq DOMAIN d.fields

\* LLMSettings(**d): keys the model does not declare are ignored, optional
\* fields that are missing become None
RebuildSettings(d) ==
    LLMSettings(d.fields.answer_provider, d.fields.answer_model, d.fields.rewrite_provider,
                IF "rewrite_model" \in DOMAIN d.fields THEN d.fields.rewrite_model ELSE "",
                IF "ollama_url" \in DOMAIN d.fields THEN d.fields.ollama_url ELSE "")

\* datetime values and their ISO strings
datetime(t) == [datetime |-> t]
isoformat(d) == [iso |-> d.datetime]
fromisoformat(s) == datetime(s.iso)
IsStr(x) == "iso" \in DOMAIN x

Message(role, content) == [role |-> role, content |-> content]

\* ------------------------------------------------------- ConversationStore
\* conversation_data of save_conversation, as RAGEngine and the tests pass it
ConversationData(title, created_at, updated_at, messages, settings) ==
    [title |-> title, created_at |-> created_at, updated_at |-> updated_at,
     messages |-> messages, settings |-> settings]

ConversationDB(conversation_id, title, created_at, updated_at, messages, settings) ==
    [conversation_id |-> conversation_id, title |-> title, created_at |-> created_at,
     updated_at |-> updated_at, messages |-> messages, settings |-> settings]

\* ConversationDB.to_dict
to_dict(row) ==
    [conversation_id |-> row.conversation_id, title |-> row.title,
     created_at |-> isoformat(row.created_at), updated_at |-> isoformat(row.updated_at),
     messages |-> row.messages, settings |-> row.settings]

\* session.query(ConversationDB).filter_by(conversation_id=...) over the rows
RowsWithId(table, conversation_id) ==
    {row \in table : row.conversation_id = conversation_id}

\* the settings column: an LLMSettings object is serialized, a dict is kept
StoredSettings(settings) ==
    IF settings = None THEN None
    ELSE IF "fields" \in DOMAIN settings THEN settings
    ELSE dict(settings)

\* faulty variant of SavedRow: an update replaces created_at as well
SavedRow_NewCreatedAt(table, conversation_id, data) ==
    ConversationDB(conversation_id, data.title,
                   IF IsStr(data.created_at) THEN fromisoformat(data.created_at)
                   ELSE data.created_at,
                   IF IsStr(data.updated_at) THEN fromisoformat(data.updated_at)
                   ELSE data.updated_at,
                   data.messages, StoredSettings(data.settings))

\* the row save_conversation leaves for conversation_id: the existing row
\* updated in place (created_at kept), or a new row
SavedRow(table, conversation_id, data) ==
    LET created_at == IF IsStr(data.created_at) THEN fromisoformat(data.created_at)
                      ELSE data.created_at
        updated_at == IF IsStr(data.updated_at) THEN fromisoformat(data.updated_at)
                      ELSE data.updated_at
        existing == RowsWithId(table, conversation_id)
    IN  IF existing # {}
        THEN LET row == CHOOSE row \in existing : TRUE IN
             [row EXCEPT !.title = data.title, !.updated_at = updated_at,
                         !.messages = data.messages,
                         !.settings = StoredSettings(data.settings)]
        ELSE ConversationDB(conversation_id, data.title, created_at, updated_at,
                            data.messages, StoredSettings(data.settings))

\* faulty variant of save_conversation: no is_available() check
ConversationStore_save_conversation_Unchecked(table, conversation_id, data, fails) ==
    IF fails THEN [table |-> table, returns |-> FALSE]
    ELSE LET existing == RowsWithId(table, conversation_id) IN
         [table |-> (table \ (IF existing = {} THEN {}
                              ELSE {CHOOSE row \in existing : TRUE}))
                        \cup {SavedRow(table, conversation_id, data)},
          returns |-> TRUE]

\* save_conversation on the table: the table it leaves and the value it returns
\* (a failed commit is rolled back and reported as False)
ConversationStore_save_conversation(table, conversation_id, data, fails) ==
    IF ~DB_CONFIGURED \/ fails THEN [table |-> table, returns |-> FALSE]
    ELSE LET existing == RowsWithId(table, conversation_id) IN
         [table |-> (table \ (IF existing = {} THEN {}
                              ELSE {CHOOSE row \in existing : TRUE}))
                        \cup {SavedRow(table, conversation_id, data)},
          returns |-> TRUE]

ConversationStore_get_conversation(table, conversation_id) ==
    IF ~DB_CONFIGURED \/ RowsWithId(table, conversation_id) = {} THEN None
    ELSE to_dict(CHOOSE row \in RowsWithId(table, conversation_id) : TRUE)

\* get_all_conversations: the rows as dicts (ORDER BY updated_at DESC leaves the
\* order of rows with equal updated_at open, so the result is kept as a set)
ConversationStore_get_all_conversations(table) ==
    IF ~DB_CONFIGURED THEN {} ELSE {to_dict(row) : row \in table}

ConversationStore_delete_conversation(table, conversation_id) ==
    IF ~DB_CONFIGURED \/ RowsWithId(table, conversation_id) = {}
    THEN [table |-> table, returns |-> FALSE]
    ELSE [table |-> table \ {CHOOSE row \in RowsWithId(table, conversation_id) : TRUE},
          returns |-> TRUE]

\* load_all_conversations_for_memory: conversation_id -> to_dict(row), its
\* settings rebuilt as LLMSettings, or None where that raises
load_all_conversations_for_memory(table) ==
    IF ~DB_CONFIGURED THEN <<>>
    ELSE [c \in {row.conversation_id : row \in table} |->
            LET conv_dict == to_dict(CHOOSE row \in table : row.conversation_id = c) IN
            IF conv_dict.settings = None THEN conv_dict
            ELSE [conv_dict EXCEPT !.settings =
                     IF CanRebuild(conv_dict.settings)
                     THEN RebuildSettings(conv_dict.settings) ELSE None]]

\* ---------------------------------------------- RAGEngine: conversation state
Engine(mem, table, file) == [conversations |-> mem, table |-> table, file |-> file]

Conversation(messages, settings, title, created_at, updated_at) ==
    [messages |-> messages, settings |-> settings, title |-> title,
     created_at |-> created_at, updated_at |-> updated_at]

\* ---- the texts of the chat application: sequences of characters
RECURSIVE lstrip(_)
lstrip(text) ==
    IF text # <<>> /\ Head(text) = " " THEN lstrip(Tail(text)) ELSE text

RECURSIVE rstrip(_)
rstrip(text) ==
    IF text # <<>> /\ text[Len(text)] = " "
    THEN rstrip(SubSeq(text, 1, Len(text) - 1)) ELSE text

\* str.strip()
strip(text) == rstrip(lstrip(text))

\* text[:n]
Prefix(text, n) == SubSeq(text, 1, IF Len(text) < n THEN Len(text) ELSE n)

\* faulty variant of the slice: messages[:limit]
LastMessages_First(messages, limit) ==
    SubSeq(messages, 1, IF Len(messages) > limit THEN limit ELSE Len(messages))

\* messages[-limit:] for limit >= 1
LastMessages(messages, limit) ==
    SubSeq(messages,
           IF Len(messages) > limit THEN Len(messages) - limit + 1 ELSE 1,
           Len(messages))

TITLE_LENGTH == 50

\* _generate_title: first_message[:50].strip(), "..." added to a longer message
_generate_title(first_message) ==
    LET title == strip(Prefix(first_message, TITLE_LENGTH)) IN
    IF Len(first_message) > TITLE_LENGTH THEN title \o <<".", ".", ".">> ELSE title

\* _save_to_json_file: the whole map, LLMSettings objects written as dicts; a
\* failure is printed and swallowed
_save_to_json_file(mem, file, fault) ==
    IF fault = "json_write" THEN file
    ELSE [c \in DOMAIN mem |->
             IF mem[c].settings = None THEN mem[c]
             ELSE [mem[c] EXCEPT !.settings = dict(mem[c].settings)]]

RECURSIVE SaveEach(_, _, _, _)
\* for conv_id, conv_data in self.conversations.items(): save_conversation(...)
SaveEach(mem, ids, table, fails) ==
    IF ids = {} THEN table
    ELSE LET c == CHOOSE c \in ids : TRUE IN
         SaveEach(mem, ids \ {c},
                  ConversationStore_save_conversation(table, c, mem[c], fails).table,
                  fails)

\* faulty variant of _save_conversations: a failed primary write ends the save
_save_conversations_AbortOnFailure(e, fault) ==
    IF DB_CONFIGURED /\ fault = "primary_write" THEN e
    ELSE Engine(e.conversations,
                IF DB_CONFIGURED
                THEN SaveEach(e.conversations, DOMAIN e.conversations, e.table, FALSE)
                ELSE e.table,
                _save_to_json_file(e.conversations, e.file, fault))

\* _save_conversations: every conversation to the primary when it is configured
\* (save_conversation reports a failure by its return value, which is ignored),
\* then the JSON file in either case
_save_conversations(e, fault) ==
    Engine(e.conversations,
           IF DB_CONFIGURED
           THEN SaveEach(e.conversations, DOMAIN e.conversations, e.table,
                         fault = "primary_write")
           ELSE e.table,
           _save_to_json_file(e.conversations, e.file, fault))

\* the map with conversation_id removed
Without(mem, conversation_id) == [c \in DOMAIN mem \ {conversation_id} |-> mem[c]]

With(mem, conversation_id, conv) ==
    [c \in DOMAIN mem \cup {conversation_id} |->
        IF c = conversation_id THEN conv ELSE mem[c]]

\* faulty variant of _add_to_conversation: the message that creates the
\* conversation is not appended to it
_add_to_conversation_AppendInElse(e, conversation_id, role, content, settings, now, fault) ==
    LET current_time == isoformat(datetime(now))
        created == IF conversation_id \in DOMAIN e.conversations
                   THEN e.conversations[conversation_id]
                   ELSE Conversation(<<>>, settings,
                            IF role = "user" THEN _generate_title(content)
                            ELSE <<"N", "e", "w", " ", "C", "o", "n", "v", "e", "r", "s",
                                   "a", "t", "i", "o", "n">>,
                            current_time, current_time)
        appended == [created EXCEPT !.messages =
                                        IF conversation_id \in DOMAIN e.conversations
                                        THEN Append(created.messages,
                                                    Message(role, content))
                                        ELSE created.messages,
                                    !.updated_at = current_time]
        saved == _save_conversations(
                     Engine(With(e.conversations, conversation_id, appended),
                            e.table, e.file), fault)
    IN  Engine(With(e.conversations, conversation_id,
                    [appended EXCEPT !.settings = settings]),
               saved.table, saved.file)

\* _add_to_conversation at time now: create if new, append, save, then set settings
_add_to_conversation(e, conversation_id, role, content, settings, now, fault) ==
    LET current_time == isoformat(datetime(now))
        created == IF conversation_id \in DOMAIN e.conversations
                   THEN e.conversations[conversation_id]
                   ELSE Conversation(<<>>, settings,
                            IF role = "user" THEN _generate_title(content)
                            ELSE <<"N", "e", "w", " ", "C", "o", "n", "v", "e", "r", "s",
                                   "a", "t", "i", "o", "n">>,
                            current_time, current_time)
        appended == [created EXCEPT !.messages = Append(created.messages,
                                                        Message(role, content)),
                                    !.updated_at = current_time]
        saved == _save_conversations(
                     Engine(With(e.conversations, conversation_id, appended),
                            e.table, e.file), fault)
    IN  Engine(With(e.conversations, conversation_id,
                    [appended EXCEPT !.settings = settings]),
               saved.table, saved.file)

\* faulty variant of _load_conversations: a failed read of the primary leaves
\* the map empty instead of falling back to the JSON file
_load_conversations_NoFallback(table, file, fault) ==
    IF DB_CONFIGURED
    THEN IF fault = "primary_read" THEN [source |-> "none", conversations |-> <<>>]
         ELSE [source |-> "primary",
               conversations |-> load_all_conversations_for_memory(table)]
    ELSE IF file # None
    THEN [source |-> "snapshot",
          conversations |->
              [c \in DOMAIN file |->
                  IF file[c].settings = None THEN file[c]
                  ELSE [file[c] EXCEPT !.settings = RebuildSettings(file[c].settings)]]]
    ELSE [source |-> "none", conversations |-> <<>>]

\* _load_conversations: the primary when configured and readable, else the JSON
\* file, else nothing
_load_conversations(table, file, fault) ==
    IF DB_CONFIGURED /\ fault # "primary_read"
    THEN [source |-> "primary", conversations |-> load_all_conversations_for_memory(table)]
    ELSE IF file # None
    THEN IF \E c \in DOMAIN file : file[c].settings # None /\ ~CanRebuild(file[c].settings)
         THEN [source |-> "snapshot", conversations |-> <<>>]     \* except: {}
         ELSE [source |-> "snapshot",
               conversations |->
                   [c \in DOMAIN file |->
                       IF file[c].settings = None THEN file[c]
                       ELSE [file[c] EXCEPT !.settings = RebuildSettings(file[c].settings)]]]
    ELSE [source |-> "none", conversations |-> <<>>]

\* faulty variant of the settings resolution: the conversation's settings are
\* not looked at
ResolveSettings_DefaultsFirst(conversation_id, settings) ==
    IF settings # None THEN settings ELSE _get_default_settings

\* settings of a chat turn: the request's, else the conversation's, else defaults
ResolveSettings(conversation_id, settings) ==
    IF settings # None THEN settings
    ELSE IF conversation_id \in DOMAIN conversations
            /\ conversations[conversation_id].settings # None
         THEN conversations[conversation_id].settings
    ELSE _get_default_settings

REWRITE_ERROR == "Query rewriting failed"
ANSWER_ERROR == "Answer generation failed"
TOP_K_RESULTS == 5

MAX_CONVERSATION_HISTORY == 10
QUERY_REWRITE_HISTORY == 5
PROMPT_HISTORY == 6

\* the text as the embedding services receive it
Spell(text) ==
    CASE text = <<"q", "1">> -> "q1"
      [] text = <<"q", "2", "?">> -> "q2"
      [] OTHER -> "other"

\* _get_conversation_history: the trailing MAX_CONVERSATION_HISTORY messages
_get_conversation_history(mem, conversation_id) ==
    IF conversation_id \notin DOMAIN mem THEN <<>>
    ELSE LastMessages(mem[conversation_id].messages, MAX_CONVERSATION_HISTORY)

\* what a provider's generate does: it raises, or returns a text
Raises == [raises |-> TRUE, text |-> <<>>]
Reply(text) == [raises |-> FALSE, text |-> text]

\* faulty variant of _rewrite_query: a conversation without history is
\* rewritten too
_rewrite_query_NoHistoryCheck(conversation_id, settings, reply) ==
    IF settings.rewrite_provider = "disabled"
    THEN [calls |-> 0, outcome |-> "ok", rewritten_query |-> <<>>]
    ELSE IF settings.rewrite_provider \notin {"openai", "ollama"}
    THEN [calls |-> 0, outcome |-> REWRITE_ERROR, rewritten_query |-> <<>>]
    ELSE IF reply.raises \/ reply.text = <<>> \/ Len(strip(reply.text)) < 3
    THEN [calls |-> 1, outcome |-> REWRITE_ERROR, rewritten_query |-> <<>>]
    ELSE [calls |-> 1, outcome |-> "ok", rewritten_query |-> strip(reply.text)]

\* faulty variant of _rewrite_query: an unusable reply is swallowed and the
\* turn goes on without a rewritten query
_rewrite_query_Swallowed(conversation_id, settings, reply) ==
    LET history == _get_conversation_history(conversations, conversation_id) IN
    IF settings.rewrite_provider = "disabled" \/ history = <<>>
    THEN [calls |-> 0, outcome |-> "ok", rewritten_query |-> <<>>]
    ELSE IF settings.rewrite_provider \notin {"openai", "ollama"}
    THEN [calls |-> 0, outcome |-> REWRITE_ERROR, rewritten_query |-> <<>>]
    ELSE IF reply.raises \/ reply.text = <<>> \/ Len(strip(reply.text)) < 3
    THEN [calls |-> 1, outcome |-> "ok", rewritten_query |-> <<>>]
    ELSE [calls |-> 1, outcome |-> "ok", rewritten_query |-> strip(reply.text)]

\* _rewrite_query with the reply of the rewrite provider: the calls made, the
\* error raised or "ok", and the rewritten query (<<>> stands for None)
_rewrite_query(conversation_id, settings, reply) ==
    LET history == _get_conversation_history(conversations, conversation_id) IN
    IF settings.rewrite_provider = "disabled" \/ history = <<>>
    THEN [calls |-> 0, outcome |-> "ok", rewritten_query |-> <<>>]
    ELSE IF settings.rewrite_provider \notin {"openai", "ollama"}
    THEN [calls |-> 0, outcome |-> REWRITE_ERROR, rewritten_query |-> <<>>]
    ELSE IF reply.raises \/ reply.text = <<>> \/ Len(strip(reply.text)) < 3
    THEN [calls |-> 1, outcome |-> REWRITE_ERROR, rewritten_query |-> <<>>]
    ELSE [calls |-> 1, outcome |-> "ok", rewritten_query |-> strip(reply.text)]

\* vector_store.search(query, top_k) as _build_context calls it
BuildContextSearch(query) ==
    IF USE_POSTGRES
    THEN PostgresVectorStore_search_value(document_chunks, query, TOP_K_RESULTS, "none")
    ELSE VectorStore_search_value(index, chunks, query, TOP_K_RESULTS, "none")

\* faulty variant of the choice of the search query: always the original
SearchQuery_Original(query, rewritten_query) == query

\* search_query = rewritten_query if rewritten_query else query
SearchQuery(query, rewritten_query) ==
    IF rewritten_query # <<>> THEN rewritten_query ELSE query

\* faulty variant of the rewrite history: QUERY_REWRITE_HISTORY messages instead
\* of that many question and answer pairs
RewriteHistory_Messages(conversation_id) ==
    LastMessages(_get_conversation_history(conversations, conversation_id),
                 QUERY_REWRITE_HISTORY)

\* rewrite_history = history[-(QUERY_REWRITE_HISTORY * 2):] of _rewrite_query
RewriteHistory(conversation_id) ==
    LastMessages(_get_conversation_history(conversations, conversation_id),
                 QUERY_REWRITE_HISTORY * 2)

\* chat up to the answer: what it raises or "ok", and what it did on the way:
\* the calls of the rewrite provider, of the search and of the answer provider,
\* the query searched for, the question and the history put into the prompt
ChatTurn(query, conversation_id, request, settings, llm) ==
    LET skipped == [calls |-> 0, outcome |-> "ok", rewritten_query |-> <<>>]
        rewrite == IF settings.rewrite_provider # "disabled"
                   THEN _rewrite_query(conversation_id, settings, llm.rewrite)
                   ELSE skipped
        search_query == SearchQuery(query, rewrite.rewritten_query)
        search == BuildContextSearch(Spell(search_query))
        history == _get_conversation_history(conversations, conversation_id)
        trace == [query |-> query, request |-> request, rewrite_calls |-> rewrite.calls,
                  rewrite_replies |-> IF rewrite.calls = 1 THEN <<llm.rewrite>> ELSE <<>>,
                  rewrite_history |-> IF rewrite.calls = 1
                                      THEN RewriteHistory(conversation_id) ELSE <<>>,
                  rewritten_query |-> rewrite.rewritten_query,
                  search_calls |-> 0, search_query |-> <<>>,
                  generate_calls |-> 0, question |-> <<>>, history |-> <<>>,
                  answer |-> <<>>]
        searched == [trace EXCEPT !.search_calls = 1, !.search_query = search_query]
        prompted == [searched EXCEPT !.question = query,
                                     !.history = LastMessages(history, PROMPT_HISTORY),
                                     !.generate_calls = 1]
    IN  IF rewrite.outcome # "ok" THEN [outcome |-> rewrite.outcome, trace |-> trace]
        ELSE IF search.outcome # "ok" THEN [outcome |-> search.outcome, trace |-> searched]
        ELSE IF settings.answer_provider \notin {"openai", "ollama"}
        THEN [outcome |-> ANSWER_ERROR,
              trace |-> [prompted EXCEPT !.generate_calls = 0]]
        ELSE IF llm.generate.raises
        THEN [outcome |-> ANSWER_ERROR, trace |-> prompted]
        ELSE [outcome |-> "ok",
              trace |-> [prompted EXCEPT !.answer = llm.generate.text]]

\* ------------------------------------------------------------ scheduling
\* faulty variant of the scheduling: the handlers run on a thread pool (def
\* instead of async def), so one starts while another is running
HandlerMayStart_Threaded == TRUE

\* every handler of main.py is a coroutine without an await, and uvicorn.run
\* drives one event loop: a handler starts when no other is running
HandlerMayStart == pending = None

\* ------------------------------------------------- RAGEngine: the handlers
ThisEngine == Engine(conversations, conversations_table, conversations_file)

\* what a user asks in the chat application
ChatQueries == {<<"q", "1">>}
SaveFaults == {"none", "primary_write", "json_write"}

\* what the rewrite provider returns: nothing, blanks, two characters in
\* blanks, a question in blanks
RewriteReplies ==
    {Raises, Reply(<<>>), Reply(<<" ", " ", " ">>), Reply(<<" ", "q", "2", " ">>),
     Reply(<<" ", "q", "2", "?", " ">>)}

\* the behaviour of the two providers during one turn: both answer, or the
\* answer provider raises
LLMOutcomes ==
    {[rewrite |-> Reply(<<" ", "q", "2", "?", " ">>), generate |-> Reply(<<"a", "n", "s">>)],
     [rewrite |-> Reply(<<" ", "q", "2", "?", " ">>), generate |-> Raises]}

\* the same with every reply of the rewrite provider
RewriteOutcomes ==
    LLMOutcomes \cup
        {[rewrite |-> r, generate |-> Reply(<<"a", "n", "s">>)] : r \in RewriteReplies}

\* a failure of the kind fault is injected into this call
InjectKind(fault) ==
    /\ Inject(fault)
    /\ fault = "none" \/ fault = "json_write" \/ DB_CONFIGURED
    /\ injected' = IF fault = "none" THEN injected ELSE injected \cup {fault}

AppendArgs(conversation_id, role, settings, fault) ==
    [conversation_id |-> conversation_id, role |-> role, settings |-> settings,
     fault |-> fault]

\* faulty variant of chat: the user message is appended before the turn is
\* known to succeed
RAGEngine_chat_AppendFirst(query, conversation_id, settings, llm, fault) ==
    /\ HandlerMayStart
    /\ clock < MaxAppends
    /\ InjectKind(fault)
    /\ \E applied \in {ResolveSettings(conversation_id, settings)} :
       \E turn \in {ChatTurn(query, conversation_id, settings, applied, llm)} :
          IF turn.outcome # "ok"
          THEN \E e \in {_add_to_conversation(ThisEngine, conversation_id, "user", query,
                                               applied, clock + 1, fault)} :
               /\ conversations' = e.conversations
               /\ conversations_table' = e.table
               /\ conversations_file' = e.file
               /\ clock' = clock + 1
               /\ ret' = Ret("chat", AppendArgs(conversation_id, "user", applied, fault),
                             turn.outcome, turn.trace)
               /\ UNCHANGED pending
          ELSE \E e \in {_add_to_conversation(ThisEngine, conversation_id, "user", query,
                                               applied, clock + 1, fault)} :
               /\ conversations' = e.conversations
               /\ conversations_table' = e.table
               /\ conversations_file' = e.file
               /\ clock' = clock + 1
               /\ pending' = [conversation_id |-> conversation_id, settings |-> applied,
                              answer |-> turn.trace.answer,
                              rewritten_query |-> turn.trace.rewritten_query]
               /\ ret' = Ret("_add_to_conversation",
                             AppendArgs(conversation_id, "user", applied, fault), "ok",
                             turn.trace)
    /\ UNCHANGED <<vsvars, DB_CONFIGURED>>

\* chat, up to the return of its first _add_to_conversation (the user message)
RAGEngine_chat(query, conversation_id, settings, llm, fault) ==
    /\ HandlerMayStart
    /\ clock < MaxAppends
    /\ InjectKind(fault)
    /\ \E applied \in {ResolveSettings(conversation_id, settings)} :
       \E turn \in {ChatTurn(query, conversation_id, settings, applied, llm)} :
          IF turn.outcome # "ok"
          THEN /\ fault = "none"
               /\ ret' = Ret("chat", AppendArgs(conversation_id, "user", applied, fault),
                             turn.outcome, turn.trace)
               /\ UNCHANGED <<conversations, conversations_table, conversations_file,
                              clock, pending>>
          ELSE \E e \in {_add_to_conversation(ThisEngine, conversation_id, "user", query,
                                               applied, clock + 1, fault)} :
               /\ conversations' = e.conversations
               /\ conversations_table' = e.table
               /\ conversations_file' = e.file
               /\ clock' = clock + 1
               /\ pending' = [conversation_id |-> conversation_id, settings |-> applied,
                              answer |-> turn.trace.answer,
                              rewritten_query |-> turn.trace.rewritten_query]
               /\ ret' = Ret("_add_to_conversation",
                             AppendArgs(conversation_id, "user", applied, fault), "ok",
                             turn.trace)
    /\ UNCHANGED <<vsvars, DB_CONFIGURED>>

\* chat, from its second _add_to_conversation (the answer) to its return of
\* answer, rewritten_query and settings
RAGEngine_chat_return(fault) ==
    /\ pending # None
    /\ clock < MaxAppends
    /\ InjectKind(fault)
    /\ \E e \in {_add_to_conversation(ThisEngine, pending.conversation_id, "assistant",
                                       pending.answer, pending.settings, clock + 1,
                                       fault)} :
          /\ conversations' = e.conversations
          /\ conversations_table' = e.table
          /\ conversations_file' = e.file
    /\ clock' = clock + 1
    /\ pending' = None
    /\ ret' = Ret("chat", AppendArgs(pending.conversation_id, "assistant",
                                     pending.settings, fault), "ok",
                  [answer |-> pending.answer,
                   rewritten_query |-> pending.rewritten_query,
                   settings |-> pending.settings])
    /\ UNCHANGED <<vsvars, DB_CONFIGURED>>

DeleteFaults == {"none", "primary_delete", "primary_write", "json_write"}

DeleteArgs(conversation_id, fault) == [conversation_id |-> conversation_id, fault |-> fault]

\* delete_conversation: memory, then the primary row (an error is printed and
\* swallowed), then _save_conversations
RAGEngine_delete_conversation(conversation_id, fault) ==
    LET mem == Without(conversations, conversation_id)
        deleted == IF fault = "primary_delete" THEN conversations_table
                   ELSE ConversationStore_delete_conversation(conversations_table,
                                                              conversation_id).table
        e == _save_conversations(Engine(mem, deleted, conversations_file), fault)
    IN  /\ HandlerMayStart
        /\ InjectKind(fault)
        /\ IF conversation_id \in DOMAIN conversations
           THEN /\ conversations' = mem
                /\ conversations_table' = e.table
                /\ conversations_file' = e.file
                /\ ret' = Ret("delete_conversation", DeleteArgs(conversation_id, fault),
                              "ok", TRUE)
           ELSE /\ fault = "none"
                /\ ret' = Ret("delete_conversation", DeleteArgs(conversation_id, fault),
                              "ok", FALSE)
                /\ UNCHANGED <<conversations, conversations_table, conversations_file>>
        /\ UNCHANGED <<vsvars, DB_CONFIGURED, clock, pending>>

\* reset_conversation: memory, then _save_conversations
RAGEngine_reset_conversation(conversation_id, fault) ==
    LET e == _save_conversations(Engine(Without(conversations, conversation_id),
                                        conversations_table, conversations_file), fault)
    IN  /\ HandlerMayStart
        /\ fault # "primary_delete"
        /\ InjectKind(fault)
        /\ IF conversation_id \in DOMAIN conversations
           THEN /\ conversations' = e.conversations
                /\ conversations_table' = e.table
                /\ conversations_file' = e.file
           ELSE /\ fault = "none"
                /\ UNCHANGED <<conversations, conversations_table, conversations_file>>
        /\ ret' = Ret("reset_conversation", DeleteArgs(conversation_id, fault), "ok", None)
        /\ UNCHANGED <<vsvars, DB_CONFIGURED, clock, pending>>

\* RAGEngine(vector_store): __init__ and _load_conversations
RAGEngine___init__(fault) ==
    LET loaded == _load_conversations(conversations_table, conversations_file, fault) IN
    /\ fault \in {"none", "primary_read"}
    /\ InjectKind(fault)
    /\ conversations' = loaded.conversations
    /\ pending' = None
    /\ ret' = Ret("__init__", [fault |-> fault], "ok", [source |-> loaded.source])
    /\ UNCHANGED <<DB_CONFIGURED, conversations_table, conversations_file, clock>>

\* ----------------------------------- ConversationStore called on its own
\* what a caller saves: the two saves of test_conversation_crud, a conversation
\* without settings, and one whose settings carry a key LLMSettings does not
\* declare
StoreData ==
    LET hello == <<Message("user", "Hello")>>
        replied == <<Message("user", "Hello"), Message("assistant", "Hi there!")>>
        partial == SettingsDict([answer_provider |-> "openai", answer_model |-> "gpt-4"], {})
    IN  {[title |-> "Test Conversation", messages |-> hello, settings |-> partial],
         [title |-> "Updated Test Conversation", messages |-> replied,
          settings |-> partial],
         [title |-> "Test Conversation", messages |-> hello, settings |-> None],
         [title |-> "Test Conversation", messages |-> hello,
          settings |-> SettingsDict(_get_default_settings, {"temperature"})]}

Call_save_conversation(conversation_id, title, messages, settings, reread, fails) ==
    LET now == datetime(clock + 1)
        existing == ConversationStore_get_conversation(conversations_table, conversation_id)
        \* created_at: datetime.now(), or conv['created_at'] as read back from the
        \* store when the caller updates a conversation it has read
        data == ConversationData(title,
                                 IF reread /\ existing # None THEN existing.created_at
                                 ELSE now,
                                 now, messages, settings)
        saved == ConversationStore_save_conversation(conversations_table, conversation_id,
                                                     data, fails)
    IN  /\ HandlerMayStart
        /\ clock + 1 <= MaxAppends
        /\ InjectKind(IF fails THEN "primary_write" ELSE "none")
        /\ conversations_table' = saved.table
        /\ clock' = clock + 1
        /\ ret' = Ret("store.save_conversation",
                      [conversation_id |-> conversation_id, data |-> data],
                      "ok", saved.returns)
        /\ UNCHANGED <<vsvars, DB_CONFIGURED, conversations, conversations_file,
                       pending>>

Call_get_conversation(conversation_id) ==
    /\ HandlerMayStart
    /\ ret' = Ret("store.get_conversation", [conversation_id |-> conversation_id], "ok",
                  ConversationStore_get_conversation(conversations_table, conversation_id))
    /\ UNCHANGED <<vsvars, convvars, faults>>

Call_get_all_conversations ==
    /\ HandlerMayStart
    /\ ret' = Ret("store.get_all_conversations", None, "ok",
                  ConversationStore_get_all_conversations(conversations_table))
    /\ UNCHANGED <<vsvars, convvars, faults>>

Call_delete_conversation(conversation_id) ==
    LET deleted == ConversationStore_delete_conversation(conversations_table,
                                                         conversation_id)
    IN  /\ HandlerMayStart
        /\ conversations_table' = deleted.table
        /\ ret' = Ret("store.delete_conversation", [conversation_id |-> conversation_id],
                      "ok", deleted.returns)
        /\ UNCHANGED <<vsvars, DB_CONFIGURED, conversations, conversations_file, clock,
                       pending, injected, faults>>

Call_load_all_conversations_for_memory ==
    /\ HandlerMayStart
    /\ ret' = Ret("store.load_all_conversations_for_memory", None, "ok",
                  load_all_conversations_for_memory(conversations_table))
    /\ UNCHANGED <<vsvars, convvars, faults>>

\* ------------------------------------------------------------ specification
EmptyConversations ==
    /\ conversations = <<>>
    /\ conversations_table = {}
    /\ conversations_file = None
    /\ clock = 0
    /\ pending = None
    /\ injected = {}

InitStore ==
    /\ USE_POSTGRES \in BOOLEAN
    /\ embedding_provider = None
    /\ embedding_settings = None
    /\ dimension = NoDimension
    /\ index = None
    /\ chunks = <<>>
    /\ config_file = None
    /\ index_file = None
    /\ metadata_file = None
    /\ document_chunks = <<>>
    /\ embedding_config = <<>>
    /\ column_dim = 0
    /\ ret = Ret("__init__", None, "ok", None)
    /\ added = FALSE
    /\ snap = None
    /\ faults = 0

Init ==
    /\ InitStore
    /\ DB_CONFIGURED = USE_POSTGRES
    /\ EmptyConversations

AddInputs == {<<>>} \cup UNION {{ChunkList(d, n, len) : n \in DocNames(d), len \in 1..MaxAdd} : d \in DocIds}

set_embedding_provider ==
    /\ HandlerMayStart
    /\ \E provider \in ProviderArgs, model \in ModelArgs :
           \/ VectorStore_set_embedding_provider(provider, model)
           \/ PostgresVectorStore_set_embedding_provider(provider, model)
    /\ UNCHANGED convvars

get_embedding_settings ==
    /\ \/ VectorStore_get_embedding_settings
       \/ PostgresVectorStore_get_embedding_settings
    /\ UNCHANGED convvars

add_documents ==
    /\ \E new \in AddInputs :
           \/ \E fault \in AddFaults : VectorStore_add_documents(new, fault)
           \/ \E fault \in PgAddFaults : PostgresVectorStore_add_documents(new, fault)
    /\ UNCHANGED convvars

search ==
    /\ \E query \in Queries, top_k \in 1..MaxTopK, fault \in {"none", "embed"} :
           \/ VectorStore_search(query, top_k, fault)
           \/ PostgresVectorStore_search(query, top_k, fault)
    /\ UNCHANGED convvars

delete_document ==
    /\ \E doc_id \in DocIds :
           \/ \E fault \in AddFaults : VectorStore_delete_document(doc_id, fault)
           \/ PostgresVectorStore_delete_document(doc_id)
    /\ UNCHANGED convvars

\* POST /reset: vector_store.reset(), then rag_engine.conversations = {}
reset ==
    /\ HandlerMayStart
    /\ \/ \E null_write \in NullWrites, fault \in ResetFaults :
              VectorStore_reset(null_write, fault)
       \/ PostgresVectorStore_reset
    /\ conversations' = IF ret'.outcome = "ok" THEN <<>> ELSE conversations
    /\ UNCHANGED <<DB_CONFIGURED, conversations_table, conversations_file, clock,
                   pending, injected>>

get_all_documents ==
    /\ \/ VectorStore_get_all_documents
       \/ PostgresVectorStore_get_all_documents
    /\ UNCHANGED convvars

Next ==
    \/ set_embedding_provider
    \/ get_embedding_settings
    \/ add_documents
    \/ search
    \/ delete_document
    \/ reset
    \/ get_all_documents

Spec == Init /\ [][Next]_vars

ingest ==
    /\ \E doc_id \in DocIds, len \in 1..MaxAdd, fault \in PgAddFaults :
           \E doc_name \in DocNames(doc_id) : process_document(doc_id, doc_name, len, fault)
    /\ UNCHANGED convvars

NextIngest == Next \/ ingest

\* the application together with the ingestion function writing to its database
SpecIngest == Init /\ [][NextIngest]_vars

\* the process is started again on the persisted state (main.py, module level):
\* the vector store is built, then the RAGEngine
startup ==
    /\ \/ VectorStore___init__
       \/ PostgresVectorStore___init__
    /\ \E fault \in {"none", "primary_read"} : RAGEngine___init__(fault)

NextReload == NextIngest \/ startup

\* the application restarted any number of times, with the ingestion function
SpecReload == Init /\ [][NextReload]_vars

\* The chat application after construction: on FAISS with or without a
\* configured database (PostgresVectorStore needs DB_HOST and DB_PASSWORD, the
\* ConversationStore works without them), on PostgreSQL with the embedding
\* configuration an earlier run left in the database, or with none.
InitConv ==
    /\ USE_POSTGRES \in BOOLEAN
    /\ DB_CONFIGURED \in BOOLEAN
    /\ USE_POSTGRES => DB_CONFIGURED
    /\ embedding_config \in
          IF USE_POSTGRES THEN {<<>>, <<SettingsOf("openai", "")>>} ELSE {<<>>}
    /\ embedding_settings = IF embedding_config = <<>> THEN None ELSE embedding_config[1]
    /\ embedding_provider =
          IF embedding_config = <<>> THEN None
          ELSE Provider(embedding_config[1].provider, embedding_config[1].model)
    /\ dimension = IF embedding_config = <<>> THEN NoDimension
                   ELSE get_dimension(Provider(embedding_config[1].provider,
                                               embedding_config[1].model))
    /\ index = None
    /\ chunks = <<>>
    /\ config_file = None
    /\ index_file = None
    /\ metadata_file = None
    /\ document_chunks = <<>>
    /\ column_dim = 0
    /\ ret = Ret("__init__", None, "ok", None)
    /\ added = FALSE
    /\ snap = None
    /\ faults = 0
    /\ EmptyConversations

chat ==
    \E query \in ChatQueries, conversation_id \in ConversationIds,
       settings \in SettingsArgs,
       llm \in LLMOutcomes, fault \in SaveFaults :
        RAGEngine_chat(query, conversation_id, settings, llm, fault)

chat_return == \E fault \in SaveFaults : RAGEngine_chat_return(fault)

delete_conversation ==
    \E conversation_id \in ConversationIds, fault \in DeleteFaults :
        RAGEngine_delete_conversation(conversation_id, fault)

reset_conversation ==
    \E conversation_id \in ConversationIds, fault \in SaveFaults :
        RAGEngine_reset_conversation(conversation_id, fault)

NextConv ==
    \/ chat
    \/ chat_return
    \/ delete_conversation
    \/ reset_conversation
    \/ reset
    \/ startup

\* the chat application: conversations, their persistence, restarts
SpecConv == InitConv /\ [][NextConv]_vars

save_conversation ==
    \E conversation_id \in ConversationIds, d \in StoreData, reread \in BOOLEAN,
       fails \in BOOLEAN :
        Call_save_conversation(conversation_id, d.title, d.messages, d.settings, reread,
                               fails)

get_conversation ==
    \E conversation_id \in ConversationIds : Call_get_conversation(conversation_id)

get_all_conversations == Call_get_all_conversations

delete_conversation_row ==
    \E conversation_id \in ConversationIds : Call_delete_conversation(conversation_id)

NextStore ==
    \/ save_conversation
    \/ get_conversation
    \/ get_all_conversations
    \/ delete_conversation_row
    \/ startup

\* the ConversationStore driven directly, and engines starting on its content
SpecStore == InitConv /\ [][NextStore]_vars

\* settings of the requests of a running engine: none, answers from ollama
\* without rewriting, answers from openai with rewriting by ollama
TurnSettings ==
    SettingsArgs \cup {LLMSettings("openai", "gpt-4", "ollama", "llama3", ""),
                       LLMSettings("other", "m", "disabled", "", "")}

chat_turn ==
    \E query \in ChatQueries, conversation_id \in ConversationIds,
       settings \in TurnSettings, llm \in RewriteOutcomes, fault \in SaveFaults :
        RAGEngine_chat(query, conversation_id, settings, llm, fault)

NextTurns ==
    \/ chat_turn
    \/ chat_return
    \/ delete_conversation
    \/ reset_conversation

\* one running engine between two restarts: turns, removals, failing writes
SpecTurns == InitConv /\ [][NextTurns]_vars

\* ---- the history of a conversation of any length
MaxTurns == 12

Digits == <<"0", "1", "2", "3", "4", "5", "6", "7", "8", "9">>

\* the text of the i-th message appended to a conversation
TurnText(i) == <<"T", Digits[(i \div 10) + 1], Digits[(i % 10) + 1]>>

\* what n appends leave in the message list: the turns in append order
Turns(n) ==
    [i \in 1..n |-> Message(IF i % 2 = 1 THEN "user" ELSE "assistant", TurnText(i))]

\* an engine without database whose conversation holds n messages
InitHistory ==
    /\ InitStore
    /\ ~USE_POSTGRES
    /\ DB_CONFIGURED = FALSE
    /\ \E n \in 0..MaxTurns, c \in ConversationIds :
           /\ conversations =
                  IF n = 0 THEN <<>>
                  ELSE [id \in {c} |->
                           Conversation(Turns(n), _get_default_settings,
                                        _generate_title(TurnText(1)),
                                        isoformat(datetime(1)), isoformat(datetime(n)))]
           /\ clock = n
    /\ conversations_file = _save_to_json_file(conversations, None, "none")
    /\ conversations_table = {}
    /\ pending = None
    /\ injected = {}

HistoryArgs(conversation_id, limit) == [conversation_id |-> conversation_id, limit |-> limit]

\* history = self._get_conversation_history(conversation_id)
Call__get_conversation_history(conversation_id) ==
    /\ ret' = Ret("_get_conversation_history",
                  HistoryArgs(conversation_id, MAX_CONVERSATION_HISTORY), "ok",
                  _get_conversation_history(conversations, conversation_id))
    /\ UNCHANGED <<vsvars, convvars, faults>>

\* recent_history = history[-6:] of chat
Call_recent_history(conversation_id) ==
    /\ ret' = Ret("recent_history", HistoryArgs(conversation_id, PROMPT_HISTORY), "ok",
                  LastMessages(_get_conversation_history(conversations, conversation_id),
                               PROMPT_HISTORY))
    /\ UNCHANGED <<vsvars, convvars, faults>>

\* rewrite_history = history[-(QUERY_REWRITE_HISTORY * 2):] of _rewrite_query
Call_rewrite_history(conversation_id) ==
    /\ ret' = Ret("rewrite_history",
                  HistoryArgs(conversation_id, QUERY_REWRITE_HISTORY * 2), "ok",
                  LastMessages(_get_conversation_history(conversations, conversation_id),
                               QUERY_REWRITE_HISTORY * 2))
    /\ UNCHANGED <<vsvars, convvars, faults>>

\* RAGEngine.get_conversation: the conversation with all its messages, or None
RAGEngine_get_conversation(conversation_id) ==
    /\ ret' = Ret("get_conversation", [conversation_id |-> conversation_id], "ok",
                  IF conversation_id \notin DOMAIN conversations THEN None
                  ELSE LET conv_data == conversations[conversation_id] IN
                       [conversation_id |-> conversation_id, title |-> conv_data.title,
                        created_at |-> conv_data.created_at,
                        updated_at |-> conv_data.updated_at,
                        messages |-> conv_data.messages,
                        settings |-> conv_data.settings])
    /\ UNCHANGED <<vsvars, convvars, faults>>

get_conversation_history ==
    \E conversation_id \in ConversationIds :
        Call__get_conversation_history(conversation_id)

recent_history ==
    \E conversation_id \in ConversationIds : Call_recent_history(conversation_id)

rewrite_history ==
    \E conversation_id \in ConversationIds : Call_rewrite_history(conversation_id)

get_engine_conversation ==
    \E conversation_id \in ConversationIds : RAGEngine_get_conversation(conversation_id)

NextHistory ==
    \/ get_conversation_history
    \/ recent_history
    \/ rewrite_history
    \/ get_engine_conversation

\* the reads of a conversation's history, for every length of the conversation
SpecHistory == InitHistory /\ [][NextHistory]_vars

\* ---- conversations that differ in their first question
TitleQueries == {<<"q", "1">>, <<"q", "2", "?">>}

chat_question ==
    \E query \in TitleQueries, conversation_id \in ConversationIds :
        RAGEngine_chat(query, conversation_id, None,
                       [rewrite |-> Reply(<<" ", "q", "2", "?", " ">>),
                        generate |-> Reply(<<"a", "n", "s">>)], "none")

NextTitle ==
    \/ chat_question
    \/ chat_return
    \/ reset
    \/ startup

\* turns with different questions, resets of the knowledge base and restarts
SpecTitle == InitConv /\ [][NextTitle]_vars

\* ---- the application and the ingestion function on one database
\* PostgresVectorStore.set_embedding_provider up to its last check: is_locked()
\* has counted the rows in a session of its own, the arguments were checked
PostgresVectorStore_set_embedding_provider_check(provider, model) ==
    LET check == SetProviderCheck(PostgresVectorStore_is_locked_value, provider, model)
    IN  /\ USE_POSTGRES
        /\ HandlerMayStart
        /\ IF check # "ok"
           THEN /\ ret' = Ret("set_embedding_provider", SetArgs(provider, model), check,
                              None)
                /\ pending' = pending
           ELSE /\ ret' = Ret("is_locked", SetArgs(provider, model), "ok", FALSE)
                /\ pending' = [provider |-> provider, model |-> model]
        /\ UNCHANGED <<vsvars, DB_CONFIGURED, conversations, conversations_table,
                       conversations_file, clock, injected, faults>>

\* the rest of it: _initialize_embedding_provider, then _save_embedding_config
\* (delete the configuration row, insert the new one, commit)
PostgresVectorStore_set_embedding_provider_write ==
    LET provider == pending.provider
        model == pending.model
        m == ResolveModel(provider, model)
        temp_provider == Provider(provider, m)
        settings == EmbeddingSettings(provider, m, get_dimension(temp_provider))
    IN  /\ USE_POSTGRES
        /\ pending # None
        /\ embedding_provider' = temp_provider
        /\ embedding_settings' = settings
        /\ dimension' = get_dimension(temp_provider)
        /\ embedding_config' = <<settings>>
        /\ ret' = Ret("set_embedding_provider", SetArgs(provider, model), "ok", settings)
        /\ pending' = None
        /\ snap' = None
        /\ UNCHANGED <<USE_POSTGRES, index, chunks, filevars, document_chunks,
                       column_dim, added, faults, DB_CONFIGURED, conversations,
                       conversations_table, conversations_file, clock, injected>>

set_embedding_provider_check ==
    \E provider \in ProviderArgs, model \in ModelArgs :
        PostgresVectorStore_set_embedding_provider_check(provider, model)

set_embedding_provider_write == PostgresVectorStore_set_embedding_provider_write

upload_document ==
    /\ HandlerMayStart
    /\ \E new \in AddInputs, fault \in PgAddFaults :
           PostgresVectorStore_add_documents(new, fault)
    /\ UNCHANGED convvars

remove_document ==
    /\ HandlerMayStart
    /\ \E doc_id \in DocIds : PostgresVectorStore_delete_document(doc_id)
    /\ UNCHANGED convvars

InitRace == Init /\ USE_POSTGRES

\* the handlers of the application run one after the other; the ingestion
\* function is another process and commits whenever it gets there
NextRace ==
    \/ set_embedding_provider_check
    \/ set_embedding_provider_write
    \/ upload_document
    \/ remove_document
    \/ ingest

\* the PostgreSQL deployment with the application in the middle of a handler
SpecRace == InitRace /\ [][NextRace]_vars

\* ---- chunking
MaxLen == 8
MaxSize == 5

\* DocumentChunk(chunk_id, text[start:end], start_char = start, end_char = end)
\* with end = start + chunk_size; the slice stops at the end of the text
TextChunk(text, start, chunk_id, chunk_size) ==
    LET end == start + chunk_size IN
    [chunk_id |-> chunk_id,
     text |-> SubSeq(text, start + 1, IF end < Len(text) THEN end ELSE Len(text)),
     start_char |-> start, end_char |-> end]

NextStart_NoOverlap(start, chunk_size, chunk_overlap) == start + chunk_size

NextStart_Swapped(start, chunk_size, chunk_overlap) == start + chunk_overlap - chunk_size

\* start += chunk_size - chunk_overlap
NextStart(start, chunk_size, chunk_overlap) == start + chunk_size - chunk_overlap

RECURSIVE ChunkFrom(_, _, _, _, _)
\* the loop of chunk_text from position start on: while start < len(text)
ChunkFrom(text, start, chunk_id, chunk_size, chunk_overlap) ==
    IF start >= Len(text) THEN <<>>
    ELSE <<TextChunk(text, start, chunk_id, chunk_size)>>
         \o ChunkFrom(text, NextStart(start, chunk_size, chunk_overlap), chunk_id + 1,
                      chunk_size, chunk_overlap)

\* DocumentProcessor.chunk_text and the chunk_text of the ingestion function
chunk_text(text, chunk_size, chunk_overlap) ==
    ChunkFrom(text, 0, 0, chunk_size, chunk_overlap)

\* a text of the given length, each character named by its position
TextOfLength(length) == [i \in 1..length |-> i]

\* the texts and settings chunked here: 0 <= overlap < size, and a text longer
\* than the overlap
ChunkInputs ==
    {[length |-> l, chunk_size |-> sz, chunk_overlap |-> o] :
        l \in 1..MaxLen, sz \in 1..MaxSize, o \in 0..(MaxSize - 1)}

InitChunk ==
    /\ USE_POSTGRES = FALSE
    /\ embedding_provider = None
    /\ embedding_settings = None
    /\ dimension = NoDimension
    /\ index = None
    /\ chunks = <<>>
    /\ config_file = None
    /\ index_file = None
    /\ metadata_file = None
    /\ document_chunks = <<>>
    /\ embedding_config = <<>>
    /\ column_dim = 0
    /\ added = FALSE
    /\ snap = None
    /\ faults = 0
    /\ DB_CONFIGURED = FALSE
    /\ EmptyConversations
    /\ \E input \in ChunkInputs :
           /\ input.chunk_overlap < input.chunk_size
           /\ input.chunk_overlap < input.length
           /\ ret = Ret("chunk_text", input, "called", None)

Call_chunk_text ==
    /\ ret.op = "chunk_text"
    /\ ret.outcome = "called"
    /\ ret' = Ret("chunk_text", ret.args, "ok",
                  chunk_text(TextOfLength(ret.args.length), ret.args.chunk_size,
                             ret.args.chunk_overlap))
    /\ UNCHANGED <<vsvars, convvars, faults>>

NextChunk == Call_chunk_text

\* chunk_text applied to texts of every length under every setting
SpecChunk == InitChunk /\ [][NextChunk]_vars

\* the configured chunking
CHUNK_SIZE == 1000
CHUNK_OVERLAP == 200

\* every text up to MaxLen characters, the empty one included, under every
\* setting with 0 <= overlap < size, and a document of 2500 characters under
\* the configuration
LoopInputs ==
    {input \in [length : 0..MaxLen, chunk_size : 1..MaxSize,
                chunk_overlap : 0..(MaxSize - 1)] :
        input.chunk_overlap < input.chunk_size}
    \cup {[length |-> 2500, chunk_size |-> CHUNK_SIZE,
           chunk_overlap |-> CHUNK_OVERLAP]}

\* chunk_text entered: chunks = [], start = 0, chunk_id = 0
InitLoop ==
    /\ USE_POSTGRES = FALSE
    /\ embedding_provider = None
    /\ embedding_settings = None
    /\ dimension = NoDimension
    /\ index = None
    /\ chunks = <<>>
    /\ config_file = None
    /\ index_file = None
    /\ metadata_file = None
    /\ document_chunks = <<>>
    /\ embedding_config = <<>>
    /\ column_dim = 0
    /\ added = FALSE
    /\ snap = None
    /\ faults = 0
    /\ DB_CONFIGURED = FALSE
    /\ EmptyConversations
    /\ \E input \in LoopInputs :
           ret = Ret("chunk_text", input, "running",
                     [start |-> 0, chunk_id |-> 0, chunks |-> <<>>])

\* one iteration of the while loop of chunk_text
chunk_text_iteration ==
    /\ ret.op = "chunk_text"
    /\ ret.outcome = "running"
    /\ ret.result.start < ret.args.length
    /\ ret' = Ret("chunk_text", ret.args, "running",
                  [start |-> NextStart(ret.result.start, ret.args.chunk_size,
                                       ret.args.chunk_overlap),
                   chunk_id |-> ret.result.chunk_id + 1,
                   chunks |-> Append(ret.result.chunks,
                                     TextChunk(TextOfLength(ret.args.length),
                                               ret.result.start,
                                               ret.result.chunk_id,
                                               ret.args.chunk_size))])
    /\ UNCHANGED <<vsvars, convvars, faults>>

\* the loop condition fails: return chunks
chunk_text_return ==
    /\ ret.op = "chunk_text"
    /\ ret.outcome = "running"
    /\ ret.result.start >= ret.args.length
    /\ ret' = Ret("chunk_text", ret.args, "ok", ret.result.chunks)
    /\ UNCHANGED <<vsvars, convvars, faults>>

NextLoop ==
    \/ chunk_text_iteration
    \/ chunk_text_return

\* chunk_text run statement by statement; the interpreter keeps executing a
\* loop that can take a step
SpecLoop == InitLoop /\ [][NextLoop]_vars /\ WF_vars(NextLoop)

\* an engine without database whose conversation holds the n messages of
\* n / 2 earlier turns, the last of them appended at instant 0
InitDialogue ==
    /\ InitStore
    /\ ~USE_POSTGRES
    /\ DB_CONFIGURED = FALSE
    /\ \E n \in {m \in 0..MaxTurns : m % 2 = 0}, c \in ConversationIds :
           conversations =
               IF n = 0 THEN <<>>
               ELSE [id \in {c} |->
                        Conversation(Turns(n), _get_default_settings,
                                     _generate_title(TurnText(1)),
                                     isoformat(datetime(1 - n)), isoformat(datetime(0)))]
    /\ clock = 0
    /\ conversations_file = _save_to_json_file(conversations, None, "none")
    /\ conversations_table = {}
    /\ pending = None
    /\ injected = {}

NextDialogue ==
    \/ chat_turn
    \/ chat_return

\* chat turns one after the other on conversations of every length
SpecDialogue == InitDialogue /\ [][NextDialogue]_vars

load_all_conversations == Call_load_all_conversations_for_memory

\* the deployment of test_json_fallback: no DB_HOST, no DB_PASSWORD
InitFallback == InitConv /\ ~DB_CONFIGURED

NextFallback ==
    \/ save_conversation
    \/ get_conversation
    \/ get_all_conversations
    \/ delete_conversation_row
    \/ load_all_conversations
    \/ chat
    \/ chat_return
    \/ delete_conversation
    \/ startup

\* the store and the engine without database connection details
SpecFallback == InitFallback /\ [][NextFallback]_vars

\* ============================================================== properties
\* views of the store shared by both implementations
NumChunks == IF USE_POSTGRES THEN Len(document_chunks) ELSE Len(chunks)

NumVectors ==
    IF USE_POSTGRES THEN Len(document_chunks)
    ELSE IF index = None THEN 0 ELSE ntotal(index)

IsLocked ==
    IF USE_POSTGRES THEN PostgresVectorStore_is_locked_value
    ELSE VectorStore_is_locked_value

StoredChunk(i) == IF USE_POSTGRES THEN document_chunks[i].chunk ELSE chunks[i]

\* distance of stored vector i to the query, in the metric of the implementation
StoredDistance(i, query) ==
    IF USE_POSTGRES
    THEN cosine_distance(document_chunks[i].embedding, EmbedOne(embedding_provider, query))
    ELSE L2(index.vectors[i], EmbedOne(embedding_provider, query))

StoreVars == <<embedding_provider, embedding_settings, dimension, index, chunks,
               config_file, index_file, metadata_file, document_chunks,
               embedding_config, column_dim>>

\* ---- C1
\* C1 (as stated): between a successful non-empty add_documents and the next
\* reset(), every set_embedding_provider call fails with the lock error,
\* whatever calls happen in between.
C1_LockedUntilReset ==
    ret.op = "set_embedding_provider" /\ added => ret.outcome = LOCK_ERROR

\* C1 (amended): set_embedding_provider fails with the lock error exactly when
\* the store holds at least one chunk at the call; a successful non-empty
\* add_documents leaves the store locked, search and get_all_documents leave the
\* lock as it is, and reset() leaves the store unlocked.
C1_LockedWhileChunksStored ==
    [][ /\ (ret'.op = "add_documents" /\ ret'.outcome = "ok" /\ ret'.args > 0
               => IsLocked')
        /\ (ret'.op = "set_embedding_provider"
               => ((ret'.outcome = LOCK_ERROR) <=> IsLocked))
        /\ (ret'.op \in {"search", "get_all_documents"} => (IsLocked' <=> IsLocked))
        /\ (ret'.op = "reset" => ~IsLocked') ]_vars

\* a set_embedding_provider call refused on a store that documents were added to
C1_Witness ==
    ret.op = "set_embedding_provider" /\ ret.outcome = LOCK_ERROR /\ added /\ IsLocked

\* ---- C2
\* C2: a set_embedding_provider call rejected for the lock or for an unknown
\* provider name changes nothing: settings, provider, dimension, index, chunks
\* and the persisted configuration and data are what they were before the call.
C2_RejectedSetChangesNothing ==
    [][ ret'.op = "set_embedding_provider"
          /\ ret'.outcome \in {LOCK_ERROR, UNKNOWN_PROVIDER}
        => UNCHANGED StoreVars ]_vars

\* an unknown provider name refused on a configured store
C2_Witness ==
    /\ ret.op = "set_embedding_provider"
    /\ ret.outcome = UNKNOWN_PROVIDER
    /\ embedding_settings # None
    /\ (config_file # None \/ embedding_config # <<>>)

\* ---- C3
\* C3: reset() completes without error in every state and leaves the store
\* Unconfigured: no chunk, no vector, no settings, no provider, not locked, no
\* persisted embedding-config record.
C3_ResetLeavesUnconfigured ==
    ret.op = "reset" =>
        /\ ret.outcome = "ok"
        /\ NumChunks = 0
        /\ NumVectors = 0
        /\ embedding_settings = None
        /\ embedding_provider = None
        /\ ~IsLocked
        /\ config_file = None
        /\ embedding_config = <<>>

\* ---- C4
\* C4: add_documents with an empty list is a no-op in every state; with a
\* non-empty list on a store without embedding provider it fails with the
\* "provider not set" error and stores nothing.
C4_AddEmptyOrWithoutProvider ==
    [][ ret'.op = "add_documents" =>
          /\ (ret'.args = 0 => ret'.outcome = "ok" /\ UNCHANGED StoreVars)
          /\ (ret'.args > 0 /\ embedding_provider = None
                 => ret'.outcome = NOT_SET /\ UNCHANGED StoreVars) ]_vars

\* a non-empty add_documents refused for the missing provider
C4_Witness ==
    /\ ret.op = "add_documents"
    /\ ret.args > 0
    /\ ret.outcome = NOT_SET
    /\ embedding_provider = None
    /\ NumChunks = 0

\* ---- C5
\* C5: an add_documents call that raises leaves the stored chunks, the stored
\* vectors and the persisted state exactly as they were before the call.
C5_AddIsAtomic ==
    [][ ret'.op = "add_documents" /\ ret'.outcome # "ok"
        => UNCHANGED <<index, chunks, index_file, metadata_file, document_chunks>> ]_vars

\* ---- C6
\* C6: every stored vector has the length recorded in the embedding settings,
\* on every insertion path, the ingestion function included.
C6_VectorsHaveRecordedDimension ==
    /\ embedding_config # <<>> =>
         \A i \in 1..Len(document_chunks) :
             document_chunks[i].embedding.dim = embedding_config[1].dimension
    /\ (config_file # None /\ index # None) =>
         \A i \in 1..ntotal(index) : index.vectors[i].dim = config_file.dimension

\* ---- C7
SearchNow(query, top_k) ==
    IF USE_POSTGRES
    THEN PostgresVectorStore_search_value(document_chunks, query, top_k, "none")
    ELSE VectorStore_search_value(index, chunks, query, top_k, "none")

SearchBefore(query, top_k) ==
    IF USE_POSTGRES
    THEN PostgresVectorStore_search_value(snap.rows, query, top_k, "none")
    ELSE VectorStore_search_value(snap.index, snap.chunks, query, top_k, "none")

ChunksBefore ==
    IF USE_POSTGRES THEN [i \in 1..Len(snap.rows) |-> snap.rows[i].chunk]
    ELSE snap.chunks

\* C7: after add_documents of the chunks of a new doc_id followed by
\* delete_document of that doc_id, the stored chunks, their order and the result
\* of search for every query and every top_k are those of the store before the add.
C7_AddThenDeleteRoundTrip ==
    (snap # None /\ snap.stage = "deleted") =>
        /\ [i \in 1..NumChunks |-> StoredChunk(i)] = ChunksBefore
        /\ \A query \in Queries, top_k \in 1..MaxTopK :
               SearchNow(query, top_k) = SearchBefore(query, top_k)

\* the round trip made on a store that held chunks of another document
C7_Witness ==
    /\ snap # None
    /\ snap.stage = "deleted"
    /\ ret.op = "delete_document"
    /\ NumChunks > 0

C9_SearchOnEmptyStore ==
    (ret.op = "search" /\ NumVectors = 0) => (ret.outcome = "ok" /\ ret.result = <<>>)

\* ---- C10
RECURSIVE SumNumChunks(_)
\* health_check: total_chunks = sum(doc['num_chunks'] for doc in all_docs)
SumNumChunks(docs) ==
    IF docs = <<>> THEN 0 ELSE Head(docs).num_chunks + SumNumChunks(Tail(docs))

\* C10: get_all_documents returns exactly one record per stored doc_id, with
\* num_chunks the number of stored chunks of that doc_id, so that the counts add
\* up to the number of stored chunks.
C10_OneRecordPerDocument ==
    ret.op = "get_all_documents" =>
        LET docs == ret.result IN
        /\ \A i, j \in 1..Len(docs) : docs[i].doc_id = docs[j].doc_id => i = j
        /\ {docs[i].doc_id : i \in 1..Len(docs)} = StoredDocIds
        /\ \A i \in 1..Len(docs) :
               docs[i].num_chunks =
                   Cardinality({k \in 1..NumChunks : StoredChunk(k).doc_id = docs[i].doc_id})
        /\ SumNumChunks(docs) = NumChunks

\* ---- C11
\* C11: a successful set_embedding_provider(p, m) stores {p, m, dim(p, m)};
\* get_embedding_settings returns the stored settings and changes nothing; and
\* add_documents, search, delete_document, get_all_documents and rejected
\* set_embedding_provider calls leave the stored settings as they are, so that
\* every query returns {p, m, dim(p, m)} until reset() or another successful set.
C11_SettingsStableUntilReset ==
    [][ /\ (ret'.op = "set_embedding_provider" /\ ret'.outcome = "ok"
               => embedding_settings' = SettingsOf(ret'.args.provider, ret'.args.model))
        /\ (ret'.op = "get_embedding_settings"
               => ret'.result = embedding_settings /\ UNCHANGED StoreVars)
        /\ (ret'.op \in {"add_documents", "search", "delete_document", "get_all_documents"}
               => UNCHANGED embedding_settings)
        /\ (ret'.op = "set_embedding_provider" /\ ret'.outcome # "ok"
               => UNCHANGED embedding_settings) ]_vars

\* the settings queried on a store that documents were added to since they were set
C11_Witness ==
    /\ ret.op = "get_embedding_settings"
    /\ ret.result = SettingsOf("openai", "text-embedding-3-large")
    /\ NumChunks > 0

\* ---- C12
\* the table content PostgresVectorStore holds after the calls that gave the
\* in-process store its chunks and vectors: row i is chunk i with its embedding
RowsOf(idx, chs) ==
    [i \in 1..Len(chs) |-> DocumentChunkDB(chs[i], idx.vectors[i])]

ChunksOf(results) == [j \in 1..Len(results) |-> results[j].chunk]

\* C12: the two implementations satisfy the same contract: on the content that
\* the same calls leave in each of them, search succeeds or fails in both and
\* returns the same chunks in the same order, and the document listing and
\* is_locked agree.
C12_SameContract ==
    (~USE_POSTGRES /\ (index = None \/ ntotal(index) = Len(chunks))) =>
        LET rows == IF index = None THEN <<>> ELSE RowsOf(index, chunks) IN
        /\ \A query \in Queries, top_k \in 1..MaxTopK :
               LET a == VectorStore_search_value(index, chunks, query, top_k, "none")
                   b == PostgresVectorStore_search_value(rows, query, top_k, "none")
               IN  /\ a.outcome = b.outcome
                   /\ ChunksOf(a.result) = ChunksOf(b.result)
        /\ GroupDocs(chunks, <<>>) = PgAllDocuments(rows)
        /\ VectorStore_is_locked_value <=> Len(rows) > 0

\* ---- C13
\* C13: whenever a vector record is stored, in memory or persisted, an
\* embedding-config record exists: the index in memory and the index file hold
\* vectors only while the configuration file exists, and the table
\* document_chunks holds rows only while the table embedding_config holds one.
C13_ConfigBeforeVectors ==
    /\ (index # None /\ ntotal(index) > 0) => config_file # None
    /\ (ReadIndex(index_file) # None /\ ntotal(ReadIndex(index_file)) > 0)
           => config_file # None
    /\ document_chunks # <<>> => embedding_config # <<>>

\* ---- C14
\* the conversation is in neither persistent representation
NotPersisted(conversation_id) ==
    /\ RowsWithId(conversations_table, conversation_id) = {}
    /\ conversations_file = None \/ conversation_id \notin DOMAIN conversations_file

\* C14: when delete_conversation(id) has removed id (no write failing), and when
\* the global reset has returned, the removed conversations are gone from
\* memory, from the primary store and from the local snapshot, so that no later
\* load brings them back.
C14_RemovedEverywhere ==
    /\ (ret.op = "delete_conversation" /\ ret.result = TRUE /\ ret.args.fault = "none")
           => /\ ret.args.conversation_id \notin DOMAIN conversations
              /\ NotPersisted(ret.args.conversation_id)
    /\ (ret.op = "reset" /\ ret.outcome = "ok")
           => /\ conversations = <<>>
              /\ \A c \in ConversationIds : NotPersisted(c)

\* ---- C15
\* an append for conversation_id has just returned, with no write failing
AppendReturned(conversation_id) ==
    /\ ret.op \in {"_add_to_conversation", "chat"}
    /\ ret.outcome = "ok"
    /\ ret.args.fault = "none"
    /\ ret.args.conversation_id = conversation_id

\* the persisted record has the messages, title, timestamps and settings of conv
SameRecord(record, conv) ==
    /\ record.messages = conv.messages
    /\ record.title = conv.title
    /\ record.created_at = conv.created_at
    /\ record.updated_at = conv.updated_at
    /\ record.settings = StoredSettings(conv.settings)

\* C15: every append writes through: when an append returns, the record of the
\* conversation in the primary store (when it is configured) and in the local
\* snapshot has the messages, title, timestamps and settings of the in-memory
\* conversation.
C15_AppendWritesThrough ==
    \A c \in ConversationIds :
        AppendReturned(c) =>
            /\ c \in DOMAIN conversations
            /\ DB_CONFIGURED =>
                   /\ ConversationStore_get_conversation(conversations_table, c) # None
                   /\ SameRecord(ConversationStore_get_conversation(conversations_table, c),
                                 conversations[c])
            /\ conversations_file # None
            /\ c \in DOMAIN conversations_file
            /\ SameRecord(conversations_file[c], conversations[c])

\* ---- C16
\* C16: when the only failures so far are failed writes to the primary store
\* (the snapshot writes succeeded), a restart loses nothing: every conversation
\* the engine held before the restart is loaded again with the same messages,
\* whether the load reads the primary store or the snapshot.
C16_NoSilentLoss ==
    [][ (ret'.op = "__init__" /\ injected \subseteq {"primary_write"})
           => \A c \in DOMAIN conversations :
                  /\ c \in DOMAIN conversations'
                  /\ conversations'[c].messages = conversations[c].messages ]_vars

\* ---- C17
\* the call that has just returned for conversation_id was an append
\* (respectively a delete that found the conversation) hit by a failure of kind
AppendFailed(conversation_id, kind) ==
    /\ ret.op \in {"_add_to_conversation", "chat"}
    /\ ret.args.conversation_id = conversation_id
    /\ ret.args.fault = kind

DeleteFailed(conversation_id, kind) ==
    /\ ret.op = "delete_conversation"
    /\ ret.result = TRUE
    /\ ret.args.conversation_id = conversation_id
    /\ ret.args.fault = kind

\* C17: a persistence failure does not abort the operation. An append whose
\* primary write fails returns normally, the message is in memory and the
\* snapshot is refreshed; an append whose snapshot write fails still writes the
\* primary; a delete hit by either failure still removes the conversation from
\* memory and from the other representation.
C17_FailureDoesNotAbort ==
    \A c \in ConversationIds :
        /\ AppendFailed(c, "primary_write") =>
               /\ ret.outcome = "ok"
               /\ c \in DOMAIN conversations
               /\ conversations[c].messages[Len(conversations[c].messages)].role
                      = ret.args.role
               /\ conversations_file # None
               /\ c \in DOMAIN conversations_file
               /\ conversations_file[c].messages = conversations[c].messages
        /\ AppendFailed(c, "json_write") =>
               /\ ret.outcome = "ok"
               /\ c \in DOMAIN conversations
               /\ conversations[c].messages[Len(conversations[c].messages)].role
                      = ret.args.role
               /\ DB_CONFIGURED =>
                      /\ RowsWithId(conversations_table, c) # {}
                      /\ ConversationStore_get_conversation(conversations_table, c).messages
                             = conversations[c].messages
        /\ (DeleteFailed(c, "primary_write") \/ DeleteFailed(c, "primary_delete")) =>
               /\ c \notin DOMAIN conversations
               /\ conversations_file # None
               /\ c \notin DOMAIN conversations_file
        /\ DeleteFailed(c, "json_write") =>
               /\ c \notin DOMAIN conversations
               /\ RowsWithId(conversations_table, c) = {}

\* a chat turn has returned whose second primary write failed: the snapshot
\* holds both messages, the primary store only the first
C17_Witness ==
    /\ AppendFailed("c1", "primary_write")
    /\ ret.op = "chat"
    /\ Len(conversations_file["c1"].messages) = 2
    /\ RowsWithId(conversations_table, "c1") # {}
    /\ Len(ConversationStore_get_conversation(conversations_table, "c1").messages) = 1

\* ---- C18
\* RAGEngine.__init__ has just returned (the state after a restart)
Started == ret.op = "__init__" /\ ret.args # None

\* the in-memory map is the content of the primary store, row by row
IsPrimaryContent(mem) ==
    /\ DOMAIN mem = {row.conversation_id : row \in conversations_table}
    /\ \A row \in conversations_table :
           LET conv == mem[row.conversation_id] IN
           /\ conv.title = row.title
           /\ conv.messages = row.messages
           /\ conv.created_at = isoformat(row.created_at)
           /\ conv.updated_at = isoformat(row.updated_at)
           /\ StoredSettings(conv.settings) = row.settings

\* the in-memory map is the content of the JSON snapshot, empty without one
IsSnapshotContent(mem) ==
    IF conversations_file = None THEN mem = <<>>
    ELSE /\ DOMAIN mem = DOMAIN conversations_file
         /\ \A c \in DOMAIN mem : SameRecord(conversations_file[c], mem[c])

\* C18: after the load at startup the in-memory map is the primary store's
\* content when the primary is configured and its read succeeds, and the local
\* snapshot's content (empty without a snapshot) when the primary is not
\* configured or its read raises; the load itself never raises.
C18_LoadAtStartup ==
    Started =>
        /\ ret.outcome = "ok"
        /\ IF DB_CONFIGURED /\ ret.args.fault # "primary_read"
           THEN IsPrimaryContent(conversations)
           ELSE IsSnapshotContent(conversations)

\* a restart during which the read of the primary raised, and the
\* conversation came back from the snapshot
C18_Witness ==
    /\ Started
    /\ DB_CONFIGURED
    /\ ret.args.fault = "primary_read"
    /\ "c1" \in DOMAIN conversations
    /\ Len(conversations["c1"].messages) = 2

\* ---- C19
\* the loaded settings object has every key of the stored settings dict, with
\* its value
KeepsEveryField(stored, settings) ==
    IF stored = None THEN settings = None
    ELSE /\ settings # None
         /\ \A k \in DOMAIN stored.fields :
                k \in DOMAIN settings /\ settings[k] = stored.fields[k]
         /\ stored.extra \subseteq DOMAIN settings

\* record, as saved, came back as conv
CameBack(record, conv) ==
    /\ conv.messages = record.messages
    /\ conv.title = record.title
    /\ conv.created_at = record.created_at
    /\ conv.updated_at = record.updated_at
    /\ (record.settings = None \/ CanRebuild(record.settings))
           => KeepsEveryField(record.settings, conv.settings)

\* C19: a load returns what was saved, from either representation: every
\* saved conversation is in the loaded map (none is dropped because the
\* settings of one cannot be rebuilt) with the same messages in the same order,
\* title and timestamps, and settings that can be rebuilt keep every field
\* they were saved with, declared by the settings model or not.
C19_SaveLoadRoundTrip ==
    /\ (Started /\ ret.result.source = "primary") =>
           /\ DOMAIN conversations = {row.conversation_id : row \in conversations_table}
           /\ \A row \in conversations_table :
                  CameBack(to_dict(row), conversations[row.conversation_id])
    /\ (Started /\ ret.result.source = "snapshot") =>
           /\ DOMAIN conversations = DOMAIN conversations_file
           /\ \A c \in DOMAIN conversations :
                  CameBack(conversations_file[c], conversations[c])

\* ---- C20
\* C20: ConversationStore CRUD. After save_conversation(id, d) has returned True,
\* get_conversation(id) returns the title and messages of d and there is one
\* record for id, the record that was there before with its created_at when id
\* existed; after delete_conversation(id) has returned True,
\* get_conversation(id) returns None and id is not listed by
\* get_all_conversations; no other call changes the record of id, so a later
\* read returns the most recent save.
C20_StoreCrud ==
    [][ \A c \in ConversationIds :
          LET saved == /\ ret'.op = "store.save_conversation"
                       /\ ret'.result = TRUE
                       /\ ret'.args.conversation_id = c
              deleted == /\ ret'.op = "store.delete_conversation"
                         /\ ret'.result = TRUE
                         /\ ret'.args.conversation_id = c
              before == ConversationStore_get_conversation(conversations_table, c)
              after == ConversationStore_get_conversation(conversations_table', c)
          IN  /\ saved =>
                     /\ after # None
                     /\ after.title = ret'.args.data.title
                     /\ after.messages = ret'.args.data.messages
                     /\ Cardinality(RowsWithId(conversations_table', c)) = 1
                     /\ before # None => after.created_at = before.created_at
              /\ deleted =>
                     /\ after = None
                     /\ \A listed \in ConversationStore_get_all_conversations(
                                           conversations_table') :
                            listed.conversation_id # c
              /\ ~saved /\ ~deleted =>
                     RowsWithId(conversations_table', c) = RowsWithId(conversations_table, c)
      ]_vars

\* a conversation saved a second time, with another title and a created_at of
\* the caller's clock, kept the created_at of its first save
C20_Witness ==
    /\ ret.op = "store.save_conversation"
    /\ ret.result = TRUE
    /\ ret.args.conversation_id = "c1"
    /\ ret.args.data.title = "Updated Test Conversation"
    /\ ret.args.data.created_at = datetime(2)
    /\ ConversationStore_get_conversation(conversations_table, "c1").created_at
           = isoformat(datetime(1))
    /\ ConversationStore_get_conversation(conversations_table, "c1").title
           = "Updated Test Conversation"

\* ---- C21
\* C21: a ConversationStore built without DB_HOST or DB_PASSWORD is not
\* available: save_conversation returns False, get_conversation None,
\* get_all_conversations nothing, delete_conversation False and
\* load_all_conversations_for_memory an empty map, none of them raises or
\* stores a row, and the engine works on the JSON snapshot alone: an append
\* whose file write succeeded is in the snapshot, and a restart loads the
\* snapshot, never the primary.
C21_UnavailableStore ==
    ~DB_CONFIGURED =>
        /\ conversations_table = {}
        /\ ret.outcome = "ok" \/ ret.op = "chat"
        /\ ret.op = "store.save_conversation" => ret.result = FALSE
        /\ ret.op = "store.get_conversation" => ret.result = None
        /\ ret.op = "store.get_all_conversations" => ret.result = {}
        /\ ret.op = "store.delete_conversation" => ret.result = FALSE
        /\ ret.op = "store.load_all_conversations_for_memory" => ret.result = <<>>
        /\ \A c \in ConversationIds :
               AppendReturned(c) /\ ret.args.fault = "none" =>
                   /\ conversations_file # None
                   /\ c \in DOMAIN conversations_file
                   /\ conversations_file[c].messages = conversations[c].messages
        /\ Started => /\ ret.result.source # "primary"
                      /\ IsSnapshotContent(conversations)

\* save_conversation was refused by the unavailable store while the engine
\* holds a conversation that a restart loaded from the snapshot
C21_Witness ==
    /\ ~DB_CONFIGURED
    /\ ret.op = "store.save_conversation"
    /\ ret.result = FALSE
    /\ conversations_file # None
    /\ "c1" \in DOMAIN conversations
    /\ Len(conversations["c1"].messages) = 2

\* ---- C22
\* the step is the first part of a chat turn on conversation_id: the turn
\* failed, or its user message was appended
TurnStarts(conversation_id) ==
    /\ ret'.op \in {"_add_to_conversation", "chat"}
    /\ ret'.args.role = "user"
    /\ ret'.args.conversation_id = conversation_id

\* the step appended a message to conversation_id
Appends(conversation_id) ==
    /\ ret'.op \in {"_add_to_conversation", "chat"}
    /\ ret'.outcome = "ok"
    /\ ret'.args.conversation_id = conversation_id

\* C22: a turn applies the settings of its request when it carries some,
\* otherwise the settings the conversation holds (those of the last turn that
\* appended to it), otherwise the defaults; the settings applied by a turn that
\* appends are stored with the conversation, and they stay until another turn
\* appends to the conversation.
C22_SettingsResolution ==
    [][\A c \in ConversationIds :
          /\ TurnStarts(c) =>
                 ret'.args.settings =
                     IF ret'.result.request # None THEN ret'.result.request
                     ELSE IF c \in DOMAIN conversations
                             /\ conversations[c].settings # None
                          THEN conversations[c].settings
                     ELSE _get_default_settings
          /\ Appends(c) => conversations'[c].settings = ret'.args.settings
          /\ (~Appends(c) /\ c \in DOMAIN conversations /\ c \in DOMAIN conversations')
                 => conversations'[c].settings = conversations[c].settings]_vars

\* the second turn of a conversation came without settings and applied the
\* explicit settings of the first
C22_Witness ==
    /\ ret.op = "_add_to_conversation"
    /\ ret.args.conversation_id = "c1"
    /\ ret.result.request = None
    /\ ret.args.settings = LLMSettings("ollama", "llama3", "disabled", "", "")
    /\ Len(conversations["c1"].messages) = 3

\* ---- C23
\* the step returns from chat with its response
TurnReturns ==
    /\ pending # None
    /\ ret'.op = "chat"
    /\ ret'.outcome = "ok"

\* C23: a turn calls the rewrite provider exactly once when the applied
\* rewrite_provider is not "disabled" and the conversation already holds a
\* message, and not at all otherwise; without a call the turn has no rewritten
\* query, its search (when it gets there) is on the original query, and the
\* response carries no rewritten query.
C23_RewriteOnlyWithHistory ==
    [][/\ \A c \in ConversationIds :
             TurnStarts(c) =>
                 LET turn == ret'.result
                     rewrites ==
                         /\ ret'.args.settings.rewrite_provider # "disabled"
                         /\ c \in DOMAIN conversations
                         /\ conversations[c].messages # <<>>
                 IN  /\ turn.rewrite_calls = IF rewrites THEN 1 ELSE 0
                     /\ ~rewrites =>
                            /\ turn.rewritten_query = <<>>
                            /\ turn.search_calls = 1 => turn.search_query = turn.query
                            /\ ret'.outcome = "ok" => pending'.rewritten_query = <<>>
       /\ TurnReturns => ret'.result.rewritten_query = pending.rewritten_query]_vars

\* a turn with rewriting enabled on a conversation without messages went
\* through without a call of the rewrite provider, and the next turn on the
\* same conversation called it
C23_Witness ==
    /\ ret.op = "_add_to_conversation"
    /\ ret.args.settings.rewrite_provider # "disabled"
    /\ ret.result.rewrite_calls = 1
    /\ ret.result.rewritten_query # <<>>
    /\ Len(conversations[ret.args.conversation_id].messages) = 3

\* ---- C24
\* the characters of text that strip() keeps: those between its first and its
\* last character other than a blank
Kept(text) ==
    {i \in 1..Len(text) : /\ \E j \in 1..i : text[j] # " "
                          /\ \E j \in i..Len(text) : text[j] # " "}

\* C24: a turn whose rewrite call raises, or returns a text with fewer than 3
\* characters between its first and last non-blank, fails with "Query
\* rewriting failed" without a search, without a call of the answer provider
\* and without an append; a turn whose rewrite call returns a longer text
\* goes on with that text trimmed, so a response never carries a rewritten
\* query of 1 or 2 characters.
C24_RewriteFailureIsFatal ==
    [][/\ \A c \in ConversationIds :
             (TurnStarts(c) /\ ret'.result.rewrite_calls = 1) =>
                 LET turn == ret'.result
                     reply == turn.rewrite_replies[1]
                 IN  IF reply.raises \/ Cardinality(Kept(reply.text)) < 3
                     THEN /\ ret'.outcome = REWRITE_ERROR
                          /\ turn.search_calls = 0
                          /\ turn.generate_calls = 0
                          /\ UNCHANGED <<conversations, conversations_table,
                                         conversations_file>>
                     ELSE /\ ret'.outcome # REWRITE_ERROR
                          /\ Len(turn.rewritten_query) = Cardinality(Kept(reply.text))
                          /\ turn.search_calls = 1
       /\ TurnReturns => Len(ret'.result.rewritten_query) \notin {1, 2}]_vars

\* the rewrite provider returned two characters between blanks and the turn
\* failed, on a conversation that holds a complete earlier turn
C24_Witness ==
    /\ ret.op = "chat"
    /\ ret.outcome = REWRITE_ERROR
    /\ ret.result.rewrite_replies = <<Reply(<<" ", "q", "2", " ">>)>>
    /\ Len(conversations[ret.args.conversation_id].messages) = 2

\* ---- C25
\* C25: a turn searches for the rewritten query when it has one and for the
\* original query otherwise; the question in the prompt of the answer provider
\* and the user message appended to the conversation are the original query.
C25_OriginalQueryInPromptAndHistory ==
    (ret.op \in {"_add_to_conversation", "chat"} /\ ret.args.role = "user") =>
        LET turn == ret.result
            messages == conversations[ret.args.conversation_id].messages
        IN  /\ turn.search_calls = 1 =>
                   turn.search_query = IF turn.rewritten_query # <<>>
                                       THEN turn.rewritten_query ELSE turn.query
            /\ turn.generate_calls = 1 => turn.question = turn.query
            /\ ret.outcome = "ok" =>
                   messages[Len(messages)] = Message("user", turn.query)

\* a turn searched for a rewritten query that differs from what the user
\* asked and appended the user's own words
C25_Witness ==
    /\ ret.op = "_add_to_conversation"
    /\ ret.result.rewritten_query # <<>>
    /\ ret.result.rewritten_query # ret.result.query
    /\ ret.result.search_query = ret.result.rewritten_query
    /\ ret.result.question = ret.result.query

\* ---- C26
\* C26: for the messages T1..Tn appended to a conversation, a read of its
\* history with limit k (10 for _get_conversation_history and for the rewrite
\* prompt, 6 for the answer prompt) returns T1..Tn when n <= k and the last k,
\* T(n-k+1)..Tn, when k < n, in append order; get_conversation returns all
\* of them in append order.
C26_HistoryIsLastK ==
    /\ ret.op \in {"_get_conversation_history", "recent_history", "rewrite_history"} =>
           LET n == IF ret.args.conversation_id \in DOMAIN conversations THEN clock ELSE 0
               k == IF n < ret.args.limit THEN n ELSE ret.args.limit
           IN  /\ Len(ret.result) = k
               /\ \A i \in 1..k : ret.result[i].content = TurnText(n - k + i)
    /\ (ret.op = "get_conversation" /\ ret.result # None) =>
           /\ Len(ret.result.messages) = clock
           /\ \A i \in 1..clock : ret.result.messages[i].content = TurnText(i)

\* the answer prompt of a conversation of 12 messages got T7..T12
C26_Witness ==
    /\ ret.op = "recent_history"
    /\ clock = MaxTurns
    /\ Len(ret.result) = PROMPT_HISTORY
    /\ ret.result[1].content = TurnText(MaxTurns - PROMPT_HISTORY + 1)

\* ---- C27
\* the first 50 characters of the message, "..." added iff it is longer
FirstFifty(first_message) ==
    IF Len(first_message) > 50 THEN SubSeq(first_message, 1, 50) \o <<".", ".", ".">>
    ELSE first_message

\* C27: the title of a conversation is the first 50 characters of its first
\* user message (with an ellipsis iff the message is longer), and no step
\* changes the title of a conversation that exists before and after it, in
\* memory or in the primary store.
C27_TitleDerivedOnce ==
    [][\A c \in ConversationIds :
          /\ c \in DOMAIN conversations' =>
                 conversations'[c].title =
                     FirstFifty(conversations'[c].messages[1].content)
          /\ (c \in DOMAIN conversations /\ c \in DOMAIN conversations') =>
                 conversations'[c].title = conversations[c].title
          /\ (RowsWithId(conversations_table, c) # {}
                 /\ RowsWithId(conversations_table', c) # {}) =>
                 {row.title : row \in RowsWithId(conversations_table', c)}
                     = {row.title : row \in RowsWithId(conversations_table, c)}]_vars

\* ---- C28
\* the messages are complete turns in sequence: user, assistant, user, ...
Alternates(messages) ==
    \A i \in 1..Len(messages) :
        messages[i].role = IF i % 2 = 1 THEN "user" ELSE "assistant"

C29_LockUnderIndexExclusion ==
    /\ (ret.op = "set_embedding_provider" /\ ret.outcome = "ok") => NumChunks = 0
    /\ IF embedding_config = <<>> THEN document_chunks = <<>>
       ELSE \A i \in 1..Len(document_chunks) :
                document_chunks[i].embedding.dim = embedding_config[1].dimension
    /\ NumVectors = NumChunks

\* ---- C30
\* C30: a text of length L >= 1 chunked with chunk size S and overlap O
\* (0 <= O < S) yields ceil((L - O) / (S - O)) chunks.
C30_ChunkCount ==
    (ret.op = "chunk_text" /\ ret.outcome = "ok") =>
        LET L == ret.args.length
            S == ret.args.chunk_size
            O == ret.args.chunk_overlap
        IN  Len(ret.result) = ((L - O) + (S - O) - 1) \div (S - O)

\* ---- C31
\* the characters (named by their position in the text) two chunks share
SharedChars(a, b) ==
    Cardinality({x \in 1..Len(a.text) : \E y \in 1..Len(b.text) : a.text[x] = b.text[y]})

\* C31: in every chunk sequence chunk_text produces, every chunk but the last
\* has a text of exactly chunk_size characters, every chunk has
\* end_char - start_char <= chunk_size and equal to the length of its text, and
\* consecutive chunks share exactly chunk_overlap characters, except the pair
\* ending in the last chunk, which may share fewer.
C31_ChunkShape ==
    (ret.op = "chunk_text" /\ ret.outcome = "ok") =>
        LET result == ret.result
            n == Len(result)
            S == ret.args.chunk_size
            O == ret.args.chunk_overlap
        IN  /\ \A i \in 1..(n - 1) : Len(result[i].text) = S
            /\ \A i \in 1..n :
                   /\ result[i].end_char - result[i].start_char <= S
                   /\ result[i].end_char - result[i].start_char = Len(result[i].text)
            /\ \A i \in 1..(n - 2) : SharedChars(result[i], result[i + 1]) = O
            /\ n >= 2 => SharedChars(result[n - 1], result[n]) <= O

\* ---- C32
\* C32: chunk_text gives chunk i (0-based) the chunk_id i and the start offset
\* i * (chunk_size - chunk_overlap), so the chunk_ids are 0..n-1 and the start
\* offsets are non-negative and strictly increasing; a document of 2500
\* characters under chunk_size 1000 and overlap 200 yields 4 chunks starting at
\* 0, 800, 1600, 2400, the last shorter than 1000.
C32_ChunkIdsAndOffsets ==
    (ret.op = "chunk_text" /\ ret.outcome = "ok") =>
        LET result == ret.result
            n == Len(result)
            S == ret.args.chunk_size
            O == ret.args.chunk_overlap
        IN  /\ \A i \in 1..n :
                   /\ result[i].chunk_id = i - 1
                   /\ result[i].start_char = (i - 1) * (S - O)
                   /\ result[i].start_char >= 0
            /\ \A i \in 1..(n - 1) : result[i].start_char < result[i + 1].start_char
            /\ (ret.args.length = 2500 /\ S = CHUNK_SIZE /\ O = CHUNK_OVERLAP) =>
                   /\ [i \in 1..n |-> result[i].start_char] = <<0, 800, 1600, 2400>>
                   /\ Len(result[n].text) < 1000

\* the document of 2500 characters has been chunked under the configuration
C32_Witness ==
    /\ ret.op = "chunk_text"
    /\ ret.outcome = "ok"
    /\ ret.args = [length |-> 2500, chunk_size |-> CHUNK_SIZE,
                   chunk_overlap |-> CHUNK_OVERLAP]
    /\ Len(ret.result) = 4

\* ---- C40
\* C40: whenever 0 <= chunk_overlap < chunk_size, chunk_text terminates for
\* every text: each iteration strictly increases the start offset, the loop
\* ends once the offset has reached the text length, and the empty text
\* yields the empty chunk list.
C40_Terminates ==
    /\ [][chunk_text_iteration => ret'.result.start > ret.result.start]_vars
    /\ [][chunk_text_return => ret.result.start >= ret.args.length]_vars
    /\ <>(ret.op = "chunk_text" /\ ret.outcome = "ok")
    /\ []((ret.outcome = "ok" /\ ret.args.length = 0) => ret.result = <<>>)

\* a text of MaxLen characters chunked one character further at a time has
\* been returned
C40_Witness ==
    /\ ret.op = "chunk_text"
    /\ ret.outcome = "ok"
    /\ ret.args.length = MaxLen
    /\ ret.args.chunk_size - ret.args.chunk_overlap = 1
    /\ Len(ret.result) = MaxLen

\* ---- C33
\* the chunks a store holds, in storage order
StoredChunks(chs, rows) ==
    IF USE_POSTGRES THEN [i \in 1..Len(rows) |-> rows[i].chunk] ELSE chs

\* C33: delete_document(d) never removes a chunk of another document: after
\* the call, whether it returned or raised, every chunk stored before whose
\* doc_id differs from d is still stored, in its original relative order, and
\* is still found by search.
C33_DeleteKeepsOtherDocuments ==
    [][ ret'.op = "delete_document" =>
          LET d == ret'.args
              kept == Remaining(StoredChunks(chunks, document_chunks), d)
              after == StoredChunks(chunks', document_chunks')
              found == IF USE_POSTGRES
                       THEN PostgresVectorStore_search_value(document_chunks', "q1",
                                                             MaxChunks, "none").result
                       ELSE VectorStore_search_value(index', chunks', "q1",
                                                     MaxChunks, "none").result
          IN  /\ Remaining(after, d) = kept
              /\ \A i \in 1..Len(kept) :
                     \E j \in 1..Len(found) : found[j].chunk = kept[i] ]_vars

\* ---- C39
\* C39: delete_document called with a doc_id that has no stored chunk changes
\* nothing: the chunk list, the index, the embedding settings and the persisted
\* files and rows stay as they were, and the call returns without an error
\* even when the embedding provider would fail, since it is not called.
C39_DeleteOfAbsentDocument ==
    [][ (ret'.op = "delete_document" /\ ret'.args \notin StoredDocIds) =>
          /\ ret'.outcome = "ok"
          /\ UNCHANGED <<chunks, index, embedding_provider, embedding_settings,
                         dimension, config_file, index_file, metadata_file,
                         document_chunks, embedding_config, column_dim>> ]_vars

\* delete_document of a document without chunks has returned on a full store
C39_Witness ==
    /\ ret.op = "delete_document"
    /\ ret.outcome = "ok"
    /\ ret.args \notin StoredDocIds
    /\ NumChunks = MaxChunks

\* ---- C35
\* C35: in the in-process store the vectors and the chunks stay in 1:1
\* positional association after any sequence of set_embedding_provider,
\* add_documents, delete_document and reset calls, those that raise included:
\* the index holds as many vectors as there are chunks and vector i is the
\* embedding of chunk i, so a successful search drops no hit and pairs every
\* returned chunk with its own distance.
C35_VectorsMatchChunks ==
    ~USE_POSTGRES =>
        /\ index = None => chunks = <<>>
        /\ index # None =>
              /\ ntotal(index) = Len(chunks)
              /\ \A i \in 1..Len(chunks) :
                     index.vectors[i] = EmbedOne(embedding_provider, chunks[i].text)
        /\ (ret.op = "search" /\ ret.outcome = "ok") =>
              /\ Len(ret.result) = Min2(ret.args.top_k, Len(chunks))
              /\ \A j \in 1..Len(ret.result) :
                     ret.result[j].distance =
                         L2(EmbedOne(embedding_provider, ret.result[j].chunk.text),
                            EmbedOne(embedding_provider, ret.args.query))

\* a search has returned two hits from the in-process store after a call
\* that raised
C35_Witness ==
    /\ ~USE_POSTGRES
    /\ faults >= 1
    /\ ret.op = "search"
    /\ ret.outcome = "ok"
    /\ Len(ret.result) >= 2
    /\ Len(chunks) > Len(ret.result)

\* ---- C34
\* C34: a chat turn that fails (the rewrite, the retrieval, an unknown
\* provider or the answer generation) leaves the conversation state as it
\* was: no message is appended, no conversation is created, settings, title
\* and updated_at keep their values, and nothing is written to the primary
\* store or to the snapshot.
C34_FailedTurnChangesNothing ==
    [][ (ret'.op = "chat" /\ ret'.outcome # "ok") =>
          UNCHANGED <<conversations, conversations_table, conversations_file>> ]_vars

\* a turn on a conversation that does not exist has failed while another
\* conversation is stored
C34_Witness ==
    /\ ret.op = "chat"
    /\ ret.outcome # "ok"
    /\ ret.args.conversation_id \notin DOMAIN conversations
    /\ conversations # <<>>

\* ---- C38
\* the instant a timestamp denotes, as a datetime or as its ISO string
Instant(t) == IF IsStr(t) THEN fromisoformat(t).datetime ELSE t.datetime

\* the record of conversation c in the primary store, None without one
RowOf(table, c) ==
    IF RowsWithId(table, c) = {} THEN None ELSE CHOOSE row \in RowsWithId(table, c) : TRUE

\* the record of conversation c in the snapshot, None without one
EntryOf(file, c) == IF file = None \/ c \notin DOMAIN file THEN None ELSE file[c]

\* a record keeps its created_at and its updated_at does not go back
Ages(before, after) ==
    (before # None /\ after # None) =>
        /\ Instant(after.created_at) = Instant(before.created_at)
        /\ Instant(after.updated_at) >= Instant(before.updated_at)

\* a record written by an append at the instant now agrees with the
\* conversation conv in memory
Stamped(record, conv, now) ==
    /\ record # None
    /\ Instant(record.created_at) = Instant(conv.created_at)
    /\ Instant(record.updated_at) = now

\* C38: created_at is set when the conversation is created on its first
\* message and never changes afterwards; updated_at is refreshed on every
\* append, never goes back and is never earlier than created_at, in memory
\* and in the persisted record (the row of the primary store and the entry of
\* the snapshot, for the appends whose write did not fail).
C38_Timestamps ==
    [][ \A c \in ConversationIds :
          LET before == IF c \in DOMAIN conversations THEN conversations[c] ELSE None
              after == IF c \in DOMAIN conversations' THEN conversations'[c] ELSE None
              row == RowOf(conversations_table', c)
              entry == EntryOf(conversations_file', c)
          IN  /\ Ages(before, after)
              /\ (before # None /\ after # None) =>
                     /\ Ages(RowOf(conversations_table, c), row)
                     /\ Ages(EntryOf(conversations_file, c), entry)
              /\ \A record \in {after, row, entry} \ {None} :
                     Instant(record.created_at) <= Instant(record.updated_at)
              /\ Appends(c) =>
                     /\ Instant(after.updated_at) = clock'
                     /\ before = None => Instant(after.created_at) = clock'
                     /\ ret'.args.fault = "none" =>
                            /\ DB_CONFIGURED => Stamped(row, after, clock')
                            /\ Stamped(entry, after, clock') ]_vars

\* ---- C36
\* C36: under sequential chat turns, successful or failed, on any mix of
\* conversation ids, every conversation's message list alternates user,
\* assistant, user, ... from a user message on: a successful turn appends
\* exactly two messages, the user query and then the assistant answer, and
\* between turns every list has an even length of at least 2.
C36_MessagesAlternate ==
    [][ /\ pending' = None =>
              \A c \in DOMAIN conversations' :
                  LET messages == conversations'[c].messages IN
                  /\ Alternates(messages)
                  /\ Len(messages) % 2 = 0
                  /\ Len(messages) >= 2
        /\ \A c \in ConversationIds :
              LET before == IF c \in DOMAIN conversations
                            THEN conversations[c].messages ELSE <<>>
                  after == IF c \in DOMAIN conversations'
                           THEN conversations'[c].messages ELSE <<>>
              IN  IF Appends(c) /\ ret'.op = "_add_to_conversation"
                  THEN after = before \o <<Message("user", ret'.result.query)>>
                  ELSE IF Appends(c)
                  THEN after = before \o <<Message("assistant", ret'.result.answer)>>
                  ELSE after = before ]_vars

\* a turn has returned on a conversation that held earlier turns
C36_Witness ==
    /\ pending = None
    /\ ret.op = "chat"
    /\ ret.outcome = "ok"
    /\ Len(conversations[ret.args.conversation_id].messages) >= 4

\* ---- C37
\* C37: the query rewriter receives the last QUERY_REWRITE_HISTORY question
\* and answer pairs of the conversation, that is the most recent min(2K, n) of
\* its n stored messages in append order (the 2 earlier messages on the second
\* turn), and the answer prompt holds at most the 6 most recent stored
\* messages in append order.
C37_HistoryWindows ==
    [][ \A c \in ConversationIds :
          LET stored == IF c \in DOMAIN conversations
                        THEN conversations[c].messages ELSE <<>>
              n == Len(stored)
              k == Min2(2 * QUERY_REWRITE_HISTORY, n)
              p == Min2(6, n)
              turn == ret'.result
          IN  /\ (TurnStarts(c) /\ turn.rewrite_calls = 1) =>
                     /\ Len(turn.rewrite_history) = k
                     /\ \A i \in 1..k : turn.rewrite_history[i] = stored[n - k + i]
                     /\ n = 2 => turn.rewrite_history = stored
              /\ (TurnStarts(c) /\ turn.generate_calls = 1) =>
                     /\ Len(turn.history) = p
                     /\ \A i \in 1..p : turn.history[i] = stored[n - p + i] ]_vars

\* a turn on a conversation of more than ten messages gave ten of them to the
\* rewriter and six to the answer prompt
C37_Witness ==
    /\ ret.op = "_add_to_conversation"
    /\ ret.result.rewrite_calls = 1
    /\ Len(ret.result.rewrite_history) = 2 * QUERY_REWRITE_HISTORY
    /\ Len(ret.result.history) = 6
    /\ Len(conversations[ret.args.conversation_id].messages) > 2 * QUERY_REWRITE_HISTORY + 1

====
